---- MODULE Spec2Model ----
(***************************************************************************)
(* Conversation engine of pi-agent: Agent.chat, the two protocol adapters  *)
(* (callModelChatCompletionsApi, callModelResponsesApi), the tool registry *)
(* (executeTool, execWithAbort), the event fan-out (comboReceiver) and the *)
(* replay of a persisted event log (Agent.setEvents).                      *)
(***************************************************************************)
EXTENDS Integers, Sequences, FiniteSets, TLC

\* ------------------------------------------------------------------ bounds
\* Spec: the engine with a prompt renderer and the tools' typical outcomes.
MaxTurns == 1
MaxRequests == 2
MaxItems == 2
\* SpecTools: turns in which the model may call any tool with any argument.
ToolTurns == 1
ToolItems == 1
\* SpecSinks: turns in which the renderer may be slow for some calls.
SinkTurns == 1
MaxSlow == 1
\* SpecRounds: an endpoint that never stops answering.
RoundTurns == 1
RoundItems == 1
\* SpecSinkFail: appends to the session log that fail.
MaxFail == 1
\* SpecConv: a conversation of several turns.
ConvTurns == 2
ConvItems == 1
\* SpecSingle: single-shot mode.
SingleItems == 1
\* SpecModels: `pi start` commands that may run at the same time.
MaxCommands == 2
\* SpecReplay: events in the log handed to setEvents.
MaxLog == 3
\* SpecJson: lines arriving on stdin in JSON interactive mode.
JsonLines == 3
JsonItems == 1
\* SpecSession: the session directory.
MaxFiles == 2
MaxRecords == 2
\* SpecSessionUse: the lines a process may find in the file it resumes.
UseRecords == 4

\* ------------------------------------------------------- events (AgentEvent)
Ev(t) ==
  [type |-> t, id |-> 0, name |-> "", args |-> "", text |-> "", isError |-> FALSE]

EvUserMessage(text) ==
  [Ev("user_message") EXCEPT !.text = text]

EvThinking(text) ==
  [Ev("thinking") EXCEPT !.text = text]

EvToolCall(id, name, args) ==
  [Ev("tool_call") EXCEPT !.id = id, !.name = name, !.args = args]

EvToolResult(id, result, isError) ==
  [Ev("tool_result") EXCEPT !.id = id, !.text = result, !.isError = isError]

EvAssistantMessage(text) ==
  [Ev("assistant_message") EXCEPT !.text = text]

EvError(message) ==
  [Ev("error") EXCEPT !.text = message]

\* ------------------------------------------------ transcript entries (any[])
\* Every entry is a record over the same fields; a field the JavaScript
\* object does not have holds its blank value ("" / 0 / <<>>).  content is a
\* list of parts; a plain string content s is the one-part list <<Part("string", s)>> and
\* null is the empty list with contentKind "null".
Part(ptype, text) ==
  [ptype |-> ptype, text |-> text]

Blank ==
  [role |-> "", type |-> "", contentKind |-> "", content |-> <<>>,
   tool_calls |-> <<>>, tool_call_id |-> 0, id |-> 0, call_id |-> 0,
   name |-> "", arguments |-> "", output |-> "", isError |-> ""]

RoleMsg(role, text) ==
  [Blank EXCEPT !.role = role, !.contentKind = "string",
                !.content = <<Part("string", text)>>]

AssistantToolCallsMsg(content, calls) ==
  [Blank EXCEPT !.role = "assistant",
                !.contentKind = IF content = "" THEN "null" ELSE "string",
                !.content = IF content = "" THEN <<>> ELSE <<Part("string", content)>>,
                !.tool_calls = calls]

ToolMsg(id, text) ==
  [Blank EXCEPT !.role = "tool", !.tool_call_id = id, !.contentKind = "string",
                !.content = <<Part("string", text)>>]

ChatToolCall(id, name, args) ==
  [id |-> id, type |-> "function", name |-> name, arguments |-> args]

FunctionCallOutput(callId, output, isError) ==
  [Blank EXCEPT !.type = "function_call_output", !.call_id = callId,
                !.output = output, !.isError = isError]

TypedMsg(type, ptype, text) ==
  [Blank EXCEPT !.type = type, !.contentKind = "list",
                !.content = <<Part(ptype, text)>>]

\* ------------------------------------------------------------ tool registry
\* A call's arguments are abstracted to what JSON.parse and the parameter
\* checks see: "bad" does not parse, "empty" parses to an object without the
\* tool's parameter, "full" has it, "full_rg" is a bash command whose text
\* contains "rg".  env is what the file system or the child process does.
ToolNames == {"read", "list", "bash", "glob", "rg", "other"}

ArgShapes == {"bad", "empty", "full", "full_rg"}

NoEnv ==
  [exists |-> TRUE, matches |-> "some", code |-> 0, out |-> TRUE, err |-> FALSE]

ProcEnvs ==
  {[NoEnv EXCEPT !.code = c, !.out = o, !.err = e] :
     c \in {0, 1, 2}, o \in BOOLEAN, e \in BOOLEAN}

Settled(ok, value) ==
  [ok |-> ok, value |-> value]

HasParam(args) ==
  args \in {"full", "full_rg"}

CommandIncludesRg(name, args) ==
  name = "rg" \/ args = "full_rg"

SpawnsProcess(name, args) ==
  name \in {"bash", "rg"} /\ HasParam(args)

AwaitsGlob(name, args) ==
  name = "glob" /\ HasParam(args)

\* child.on("error") of execWithAbort: the promise rejects with the error.
OnError(message) ==
  Settled(FALSE, message)

\* OnClose without the exception for status 1 of a ripgrep command.
OnCloseNoRgException(includesRg, env, aborted) ==
  IF aborted THEN Settled(FALSE, "Interrupted")
  ELSE IF env.code # 0
    THEN IF env.err /\ ~env.out THEN Settled(FALSE, "stderr")
         ELSE Settled(TRUE, IF env.out THEN "stdout" ELSE "")
    ELSE Settled(TRUE, IF env.out THEN "stdout" ELSE IF env.err THEN "stderr" ELSE "")

\* child.on("close") of execWithAbort.
OnClose(includesRg, env, aborted) ==
  IF aborted THEN Settled(FALSE, "Interrupted")
  ELSE IF env.code # 0
    THEN IF env.code = 1 /\ includesRg THEN Settled(TRUE, "")
         ELSE IF env.err /\ ~env.out THEN Settled(FALSE, "stderr")
         ELSE Settled(TRUE, IF env.out THEN "stdout" ELSE "")
    ELSE Settled(TRUE, IF env.out THEN "stdout" ELSE IF env.err THEN "stderr" ELSE "")

\* execWithAbort: which of the child's two events settles the promise.  An
\* abort kills the child; the runtime then reports "error" (the abort), and
\* "close" once the child is gone; the first to fire decides.
ExecWithAbort(includesRg, env, aborted, first) ==
  IF first = "error" THEN OnError("The operation was aborted")
  ELSE OnClose(includesRg, env, aborted)

\* executeTool with read and list throwing for an absent path.
ExecuteToolStrict(name, args, env, proc) ==
  IF args = "bad" THEN Settled(FALSE, "SyntaxError")
  ELSE IF name = "read" THEN
    IF ~HasParam(args) THEN Settled(TRUE, "Error: path parameter is required")
    ELSE IF ~env.exists THEN Settled(FALSE, "File not found")
    ELSE Settled(TRUE, "file data")
  ELSE IF name = "list" THEN
    IF ~env.exists THEN Settled(FALSE, "Directory not found")
    ELSE Settled(TRUE, "entries")
  ELSE IF name = "bash" THEN
    IF ~HasParam(args) THEN Settled(TRUE, "Error: command parameter is required")
    ELSE IF proc.ok
      THEN Settled(TRUE, IF proc.value = "" THEN "Command executed successfully"
                         ELSE proc.value)
    ELSE IF proc.value = "Interrupted" THEN Settled(FALSE, "Interrupted")
    ELSE Settled(FALSE, "Command failed: " \o proc.value)
  ELSE IF name = "glob" THEN
    IF ~HasParam(args) THEN Settled(TRUE, "Error: pattern parameter is required")
    ELSE IF env.matches = "error" THEN Settled(TRUE, "Glob error")
    ELSE IF env.matches = "none" THEN Settled(TRUE, "No files found matching the pattern")
    ELSE Settled(TRUE, "matches")
  ELSE IF name = "rg" THEN
    IF ~HasParam(args) THEN Settled(TRUE, "Error: args parameter is required")
    ELSE IF proc.ok
      THEN Settled(TRUE, IF proc.value = "" THEN "No matches found" ELSE proc.value)
    ELSE IF proc.value = "Interrupted" THEN Settled(FALSE, "Interrupted")
    ELSE Settled(TRUE, "ripgrep error: " \o proc.value)
  ELSE Settled(TRUE, "Unknown tool")

\* executeTool: proc is the settled execWithAbort promise of a process tool.
ExecuteTool(name, args, env, proc) ==
  IF args = "bad" THEN Settled(FALSE, "SyntaxError")
  ELSE IF name = "read" THEN
    IF ~HasParam(args) THEN Settled(TRUE, "Error: path parameter is required")
    ELSE IF ~env.exists THEN Settled(TRUE, "File not found")
    ELSE Settled(TRUE, "file data")
  ELSE IF name = "list" THEN
    IF ~env.exists THEN Settled(TRUE, "Directory not found")
    ELSE Settled(TRUE, "entries")
  ELSE IF name = "bash" THEN
    IF ~HasParam(args) THEN Settled(TRUE, "Error: command parameter is required")
    ELSE IF proc.ok
      THEN Settled(TRUE, IF proc.value = "" THEN "Command executed successfully"
                         ELSE proc.value)
    ELSE IF proc.value = "Interrupted" THEN Settled(FALSE, "Interrupted")
    ELSE Settled(FALSE, "Command failed: " \o proc.value)
  ELSE IF name = "glob" THEN
    IF ~HasParam(args) THEN Settled(TRUE, "Error: pattern parameter is required")
    ELSE IF env.matches = "error" THEN Settled(TRUE, "Glob error")
    ELSE IF env.matches = "none" THEN Settled(TRUE, "No files found matching the pattern")
    ELSE Settled(TRUE, "matches")
  ELSE IF name = "rg" THEN
    IF ~HasParam(args) THEN Settled(TRUE, "Error: args parameter is required")
    ELSE IF proc.ok
      THEN Settled(TRUE, IF proc.value = "" THEN "No matches found" ELSE proc.value)
    ELSE IF proc.value = "Interrupted" THEN Settled(FALSE, "Interrupted")
    ELSE Settled(TRUE, "ripgrep error: " \o proc.value)
  ELSE Settled(TRUE, "Unknown tool")

\* -------------------------------------------------------------------- state
VARIABLES
  api,          \* config.api: "completions" or "responses"
  systemPrompt, \* config.systemPrompt ("" when none)
  reportsUsage, \* whether the endpoint's responses carry usage
  wide,         \* whether the model may call every tool with every argument
  mode,         \* who calls Agent.chat: "direct" (TUI, single shot) or "json"
  endless,      \* whether the endpoint answers any number of requests
  config,       \* Agent.config of the process that holds the session manager
  messages,     \* Agent.messages: the transcript
  emitted,      \* events passed to comboReceiver.on = received by the renderer
  stored,       \* events the session manager has appended to the log
  inflight,     \* comboReceiver.on calls whose renderer has not yet resolved
  slowLeft,     \* how many more unawaited calls may meet a slow renderer
  awaiting,     \* the comboReceiver.on call the engine awaits (0: none)
  pc,           \* where Agent.chat is suspended or about to continue
  ctl,          \* abortController: "none" (null), "live", "aborted"
  resp,         \* the current round's response
  idx,          \* position in the response's tool calls / output items
  done,         \* assistantResponded / conversationDone
  toolEnv,      \* what the tool in progress finds in its environment
  child,        \* child process of the running tool
  toolRes,      \* settled executeTool promise
  turns,        \* how each turn so far ended (one entry per Agent.chat call)
  turnStart,    \* Len(emitted) when the current turn began
  intAt,        \* where the engine was when interrupt() fired in this turn
  cliErrors,    \* error events the caller of Agent.chat gave the renderer
  turnsLeft,    \* turns the user may still start
  requestsLeft, \* model requests the endpoint will still answer
  itemsLeft,    \* tool calls and output items the endpoint may still return
  nextId,       \* next tool call id the endpoint hands out
  roundStart,   \* Len(emitted) when the current round's response arrived
  failLeft,     \* how many more sink calls may fail
  isProcessing, \* runJsonInteractiveMode: isProcessing
  pendingMessage, \* runJsonInteractiveMode: pendingMessage ("" for null)
  linesLeft,    \* lines stdin may still deliver
  received,     \* message commands with content read from stdin so far
  todo,         \* runSingleShotMode: the messages not yet asked
  files,        \* session directory: the records of each session file
  recent,       \* the existing session files, most recently modified first
  sessionFile,  \* SessionManager.sessionFile (0: no manager constructed)
  sessionId,    \* SessionManager.sessionId
  continued,    \* whether the manager took up an existing file
  continueSession, \* the constructor argument of the current manager
  nextSession,  \* next fresh session id / file name
  models,       \* the pod's models in the configuration file: name -> port
  starts        \* the `pi start` commands in progress

vars ==
  <<api, systemPrompt, reportsUsage, wide, mode, endless, config, messages,
    emitted, stored, inflight,
    slowLeft, awaiting, pc, ctl, resp, idx, done, toolEnv, child, toolRes, turns,
    turnStart, intAt, cliErrors, turnsLeft, requestsLeft, itemsLeft, nextId,
    roundStart, failLeft, isProcessing, pendingMessage, linesLeft, received, todo,
    files, recent, sessionFile, sessionId, continued, continueSession,
    nextSession, models, starts>>

cfg ==
  <<api, systemPrompt, reportsUsage, wide, mode, endless, config>>

\* State of runJsonInteractiveMode.
cli ==
  <<isProcessing, pendingMessage, linesLeft, received, todo>>

\* State of the SessionManager and its directory.
sess ==
  <<files, recent, sessionFile, sessionId, continued, continueSession,
    nextSession>>

\* State of the pod's model management.
pods ==
  <<models, starts>>

\* State of the conversation engine.
engine ==
  <<cfg, messages, emitted, stored, inflight, slowLeft, awaiting, pc, ctl, resp,
    idx, done, toolEnv, child, toolRes, turns, turnStart, intAt, cliErrors,
    turnsLeft, requestsLeft, itemsLeft, nextId, roundStart, failLeft>>

NoResp ==
  [hasOutput |-> FALSE, content |-> "", calls |-> <<>>, output |-> <<>>]

NoRes ==
  Settled(TRUE, "")

\* Agent.constructor: the transcript starts with the system prompt, if any.
InitialMessages(prompt) ==
  IF prompt # "" THEN <<RoleMsg("system", prompt)>> ELSE <<>>

\* Agent.config before a process has constructed an Agent with a session.
NoConfig ==
  [apiKey |-> "", baseURL |-> "", model |-> "", isGptOss |-> FALSE,
   systemPrompt |-> ""]

\* No SessionManager has been constructed and the directory is empty.
InitNoSession ==
  /\ config = NoConfig
  /\ files = [f \in 1..MaxFiles |-> <<>>]
  /\ recent = <<>>
  /\ sessionFile = 0
  /\ sessionId = 0
  /\ continued = FALSE
  /\ continueSession = FALSE
  /\ nextSession = 1

\* Agent.chat is called by the TUI loop or by single-shot mode.
InitDirect ==
  /\ mode = "direct"
  /\ isProcessing = FALSE
  /\ pendingMessage = ""
  /\ linesLeft = 0
  /\ received = 0
  /\ todo = <<>>

\* Names a model may be started under, and the commands that may run at once.
ModelNames == {"a", "b"}

StartCommands == 1..MaxCommands

NoStart ==
  [pc |-> "none", name |-> "", port |-> 0]

\* The pod has no model and no command is running.
InitPods ==
  /\ models = [n \in ModelNames |-> 0]
  /\ starts = [p \in StartCommands |-> NoStart]

InitEngine ==
  /\ api \in {"completions", "responses"}
  /\ roundStart = 0
  /\ messages = InitialMessages(systemPrompt)
  /\ emitted = <<>>
  /\ stored = <<>>
  /\ inflight = {}
  /\ awaiting = 0
  /\ pc = "idle"
  /\ ctl = "none"
  /\ resp = NoResp
  /\ idx = 0
  /\ done = FALSE
  /\ toolEnv = NoEnv
  /\ child = "none"
  /\ toolRes = NoRes
  /\ turns = <<>>
  /\ turnStart = 0
  /\ intAt = ""
  /\ cliErrors = 0
  /\ nextId = 1

\* The engine called directly, with sinks that do not fail.
InitCommon ==
  /\ InitDirect
  /\ endless = FALSE
  /\ failLeft = 0
  /\ InitNoSession
  /\ InitEngine
  /\ InitPods

Init ==
  /\ systemPrompt \in {"", "sys"}
  /\ reportsUsage \in BOOLEAN
  /\ wide = FALSE
  /\ slowLeft = 0
  /\ turnsLeft = MaxTurns
  /\ requestsLeft = MaxRequests
  /\ itemsLeft = MaxItems
  /\ InitCommon

InitTools ==
  /\ systemPrompt = "sys"
  /\ reportsUsage = FALSE
  /\ wide = TRUE
  /\ slowLeft = 0
  /\ turnsLeft = ToolTurns
  /\ requestsLeft = MaxRequests
  /\ itemsLeft = ToolItems
  /\ InitCommon

\* An endpoint that answers every request; once its items are used up it
\* returns empty responses or final text.
InitRounds ==
  /\ systemPrompt = "sys"
  /\ reportsUsage = FALSE
  /\ wide = FALSE
  /\ slowLeft = 0
  /\ turnsLeft = RoundTurns
  /\ requestsLeft = 0
  /\ itemsLeft = RoundItems
  /\ InitDirect
  /\ endless = TRUE
  /\ failLeft = 0
  /\ InitNoSession
  /\ InitEngine
  /\ InitPods

\* The messages given on the command line.
SingleArgs == <<"first", "second">>

\* runSingleShotMode asks the messages of the command line.
InitSingle ==
  /\ systemPrompt = "sys"
  /\ reportsUsage = FALSE
  /\ wide = FALSE
  /\ slowLeft = 0
  /\ turnsLeft = 0
  /\ requestsLeft = MaxRequests
  /\ itemsLeft = SingleItems
  /\ mode = "single"
  /\ isProcessing = FALSE
  /\ pendingMessage = ""
  /\ linesLeft = 0
  /\ received = 0
  /\ todo = SingleArgs
  /\ endless = FALSE
  /\ failLeft = 0
  /\ InitNoSession
  /\ InitEngine
  /\ InitPods

\* runJsonInteractiveMode drives the agent from lines on stdin.
InitJson ==
  /\ systemPrompt = "sys"
  /\ reportsUsage = FALSE
  /\ wide = FALSE
  /\ slowLeft = 0
  /\ turnsLeft = 0
  /\ requestsLeft = MaxRequests
  /\ itemsLeft = JsonItems
  /\ mode = "json"
  /\ isProcessing = FALSE
  /\ pendingMessage = ""
  /\ linesLeft = JsonLines
  /\ received = 0
  /\ todo = <<>>
  /\ endless = FALSE
  /\ failLeft = 0
  /\ InitNoSession
  /\ InitEngine
  /\ InitPods

\* A session manager whose append may fail.
InitSinkFail ==
  /\ systemPrompt = "sys"
  /\ reportsUsage \in BOOLEAN
  /\ wide = FALSE
  /\ slowLeft = 0
  /\ turnsLeft = SinkTurns
  /\ requestsLeft = MaxRequests
  /\ itemsLeft = MaxItems
  /\ InitDirect
  /\ endless = FALSE
  /\ failLeft = MaxFail
  /\ InitNoSession
  /\ InitEngine
  /\ InitPods

\* A conversation of several turns with one endpoint.
InitConv ==
  /\ systemPrompt = "sys"
  /\ reportsUsage = FALSE
  /\ wide = FALSE
  /\ slowLeft = 0
  /\ turnsLeft = ConvTurns
  /\ requestsLeft = MaxRequests
  /\ itemsLeft = ConvItems
  /\ InitCommon

\* The session directory and its managers alone; the engine stays idle.
InitSession ==
  /\ systemPrompt = "sys"
  /\ reportsUsage = FALSE
  /\ wide = FALSE
  /\ slowLeft = 0
  /\ turnsLeft = 0
  /\ requestsLeft = 0
  /\ itemsLeft = 0
  /\ InitCommon

InitSinks ==
  /\ systemPrompt = "sys"
  /\ reportsUsage \in BOOLEAN
  /\ wide = FALSE
  /\ slowLeft = MaxSlow
  /\ turnsLeft = SinkTurns
  /\ requestsLeft = MaxRequests
  /\ itemsLeft = MaxItems
  /\ InitCommon

\* ------------------------------------------------------------ event fan-out
\* comboReceiver.on(e) calls renderer.on(e) at once; sessionManager.on(e) is
\* called when the renderer's promise resolves.  An awaited call suspends the
\* engine until then; a call that is not awaited leaves it running.
\* sessionManager.on(event): one record appended per call, synchronously.
SessionManagerOn(log, event) ==
  Append(log, event)

\* unawaited: zero or one event passed to comboReceiver.on without await;
\* awaited: zero or one event passed after it and awaited.  A renderer that
\* resolves at once hands an unawaited event to the session manager before
\* anything later; a slow one keeps the call in flight.
Emit(unawaited, awaited) ==
  /\ emitted' = emitted \o unawaited \o awaited
  /\ awaiting' = IF awaited # <<>> THEN Len(emitted) + Len(unawaited) + 1 ELSE 0
  /\ \E s \in (IF unawaited # <<>> /\ slowLeft > 0 THEN BOOLEAN ELSE {FALSE}) :
       /\ stored' = IF unawaited # <<>> /\ ~s
                      THEN SessionManagerOn(stored, unawaited[1]) ELSE stored
       /\ inflight' = inflight
                        \cup (IF s THEN {Len(emitted) + 1} ELSE {})
                        \cup (IF awaited # <<>>
                                THEN {Len(emitted) + Len(unawaited) + 1} ELSE {})
       /\ slowLeft' = IF s THEN slowLeft - 1 ELSE slowLeft

NoEmit ==
  UNCHANGED <<emitted, stored, inflight, slowLeft, awaiting>>

\* The engine is suspended in an await that lets other tasks run.
Suspended ==
  awaiting # 0 \/ pc \in {"request", "toolwait"}

\* The renderer's promise of call i resolves: the session manager gets the
\* event, and the engine resumes if it awaited this call.
Deliver(i) ==
  /\ i \in inflight
  /\ Suspended \/ pc = "idle"
  /\ stored' = SessionManagerOn(stored, emitted[i])
  /\ inflight' = inflight \ {i}
  /\ awaiting' = IF awaiting = i THEN 0 ELSE awaiting
  /\ UNCHANGED <<cfg, pods, cli, sess, failLeft, roundStart, turnsLeft, messages, emitted, slowLeft,
                 pc, ctl, resp, idx, done, toolEnv, child, toolRes, turns,
                 turnStart, intAt, cliErrors, requestsLeft, itemsLeft, nextId>>

\* ------------------------------------------------------- model endpoint
UserTexts == {"hello"}

\* The calls the model may make.  executeTool parses the arguments before it
\* looks at the name, so one tool stands for all with arguments that do not
\* parse; an unknown tool never reads its arguments.
CallShapes ==
  IF wide
    THEN {c \in ToolNames \X ArgShapes :
            /\ c[2] = "full_rg" => c[1] = "bash"
            /\ c[2] = "bad" => c[1] = "read"
            /\ c[2] = "empty" => c[1] # "other"}
    ELSE {<<"read", "full">>, <<"bash", "full">>}

\* What a call may find.  Only for a command that includes rg does the code
\* tell exit status 1 from the other failures.
Envs(name, args) ==
  IF SpawnsProcess(name, args)
    THEN IF wide
           THEN {e \in ProcEnvs : e.code = 2 => CommandIncludesRg(name, args)}
         ELSE {NoEnv, [NoEnv EXCEPT !.code = 1, !.out = FALSE, !.err = TRUE]}
  ELSE IF AwaitsGlob(name, args)
    THEN {[NoEnv EXCEPT !.matches = m] : m \in {"none", "some", "error"}}
  ELSE IF name \in {"read", "list"} /\ args # "bad" /\ wide
    THEN {[NoEnv EXCEPT !.exists = b] : b \in BOOLEAN}
  ELSE {NoEnv}

\* tool_calls of a chat completion: n calls with fresh ids.
ChatCallLists(n) ==
  {[i \in 1..n |-> ChatToolCall(nextId + i - 1, f[i][1], f[i][2])] :
     f \in [1..n -> CallShapes]}

ReasoningItem(id) ==
  [Blank EXCEPT !.type = "reasoning", !.id = id, !.contentKind = "list",
                !.content = <<Part("reasoning_text", "thought")>>]

MessageItem(id, ptype) ==
  [Blank EXCEPT !.type = "message", !.id = id, !.role = "assistant",
                !.contentKind = "list", !.content = <<Part(ptype, "answer")>>]

FunctionCallItem(id, name, args) ==
  [Blank EXCEPT !.type = "function_call", !.id = id, !.call_id = id,
                !.name = name, !.arguments = args]

OtherItem(id) ==
  [Blank EXCEPT !.type = "web_search_call", !.id = id]

ItemsWithId(id) ==
  {ReasoningItem(id), MessageItem(id, "output_text"), MessageItem(id, "refusal"),
   OtherItem(id)} \cup {FunctionCallItem(id, c[1], c[2]) : c \in CallShapes}

\* output of a response: n items with fresh ids.
OutputLists(n) ==
  {o \in [1..n -> UNION {ItemsWithId(nextId + i - 1) : i \in 1..n}] :
     \A i \in 1..n : o[i] \in ItemsWithId(nextId + i - 1)}

\* ------------------------------------------------------------- Agent.chat
Aborted ==
  ctl = "aborted"

\* Agent.chat without its finally block: the controller of the turn that ended
\* stays in the field.
EndTurnKeepsController(kind) ==
  /\ pc' = IF mode = "json" THEN "returned" ELSE "idle"
  /\ ctl' = ctl
  /\ turns' = Append(turns, kind)
  /\ cliErrors' = IF kind = "threw" THEN cliErrors + 1 ELSE cliErrors

\* Agent.chat returns or throws; finally: abortController = null.  A throw
\* reaches the caller, which gives the renderer one error event.
EndTurn(kind) ==
  /\ pc' = IF mode = "json" THEN "returned" ELSE "idle"
  /\ ctl' = "none"
  /\ turns' = Append(turns, kind)
  /\ cliErrors' = IF kind = "threw" THEN cliErrors + 1 ELSE cliErrors

\* Agent.chat with an adapter that does not announce the turn: no
\* assistant_start event.
AskStartUnannounced(text) ==
  /\ Emit(<<EvUserMessage(text)>>, <<>>)
  /\ messages' = Append(messages, RoleMsg("user", text))
  /\ ctl' = "live"
  /\ done' = FALSE
  /\ turnStart' = Len(emitted)
  /\ intAt' = ""
  /\ UNCHANGED <<cfg, pods, sess, failLeft, roundStart, resp, idx, toolEnv, child,
                 toolRes, turns, cliErrors, requestsLeft, itemsLeft, nextId>>

\* Agent.chat starting from an empty transcript instead of pushing onto the
\* one it has.
AskStartDropsHistory(text) ==
  /\ Emit(<<EvUserMessage(text)>>, <<Ev("assistant_start")>>)
  /\ messages' = <<RoleMsg("user", text)>>
  /\ ctl' = "live"
  /\ done' = FALSE
  /\ turnStart' = Len(emitted)
  /\ intAt' = ""
  /\ UNCHANGED <<cfg, pods, sess, failLeft, roundStart, resp, idx, toolEnv, child,
                 toolRes, turns, cliErrors, requestsLeft, itemsLeft, nextId>>

\* Agent.chat up to the first await of the adapter: user_message is emitted
\* without await, the user entry is pushed, a fresh AbortController is made,
\* and the adapter awaits assistant_start.
AskStart(text) ==
  /\ Emit(<<EvUserMessage(text)>>, <<Ev("assistant_start")>>)
  /\ messages' = Append(messages, RoleMsg("user", text))
  /\ ctl' = "live"
  /\ done' = FALSE
  /\ turnStart' = Len(emitted)
  /\ intAt' = ""
  /\ UNCHANGED <<cfg, pods, sess, failLeft, roundStart, resp, idx, toolEnv, child,
                 toolRes, turns, cliErrors, requestsLeft, itemsLeft, nextId>>

\* The TUI loop and single-shot mode call Agent.chat when the previous call
\* has returned.
Chat(text) ==
  /\ mode = "direct"
  /\ pc = "idle"
  /\ turnsLeft > 0
  /\ turnsLeft' = turnsLeft - 1
  /\ AskStart(text)
  /\ pc' = "loop"
  /\ UNCHANGED cli

\* Agent.interrupt, called while a turn is suspended or while no turn runs:
\* abortController?.abort().  With no controller nothing happens; a live
\* signal aborts, and the abort listener of execWithAbort kills a running
\* child.  (Aborting a signal that has aborted changes nothing and is left
\* out.)
Interrupt ==
  /\ mode = "direct"
  /\ (Suspended /\ ctl = "live") \/ pc = "idle"
  /\ IF ctl = "live"
       THEN /\ ctl' = "aborted"
            /\ child' = IF child = "running" THEN "killed" ELSE child
            /\ intAt' = IF awaiting # 0 THEN "emit" ELSE pc
       ELSE UNCHANGED <<ctl, child, intAt>>
  /\ UNCHANGED <<cfg, pods, cli, sess, failLeft, roundStart, turnsLeft, messages, emitted, stored, inflight, slowLeft, awaiting, pc, resp,
                 idx, done, toolEnv, toolRes, turns, turnStart, cliErrors,
                 requestsLeft, itemsLeft, nextId>>

\* Top of the adapter's while loop (both adapters): the interruption check,
\* then the request.
LoopCheck ==
  /\ pc = "loop"
  /\ awaiting = 0
  /\ IF Aborted
       THEN /\ Emit(<<>>, <<Ev("interrupted")>>)
            /\ pc' = "throw_interrupted"
            /\ UNCHANGED requestsLeft
       ELSE /\ endless \/ requestsLeft > 0
            /\ NoEmit
            /\ pc' = "request"
            /\ requestsLeft' = IF endless THEN requestsLeft ELSE requestsLeft - 1
  /\ UNCHANGED <<cfg, pods, cli, sess, failLeft, roundStart, turnsLeft, messages, ctl, resp, idx, done, toolEnv, child,
                 toolRes, turns, turnStart, intAt, cliErrors, itemsLeft, nextId>>

\* throw new Error("Interrupted") after the awaited interrupted event; the
\* catch of Agent.chat returns.
ThrowInterrupted ==
  /\ pc = "throw_interrupted"
  /\ awaiting = 0
  /\ EndTurn("interrupted")
  /\ UNCHANGED <<cfg, pods, cli, sess, failLeft, roundStart, turnsLeft, messages, emitted, stored, inflight, slowLeft, awaiting, resp, idx,
                 done, toolEnv, child, toolRes, turnStart, intAt, requestsLeft,
                 itemsLeft, nextId>>

\* The request was given the signal: an abort rejects it, and the catch of
\* Agent.chat returns because signal.aborted holds.
RequestAborted ==
  /\ pc = "request"
  /\ Aborted
  /\ EndTurn("aborted")
  /\ UNCHANGED <<cfg, pods, cli, sess, failLeft, roundStart, turnsLeft, messages, emitted, stored, inflight, slowLeft, awaiting, resp, idx,
                 done, toolEnv, child, toolRes, turnStart, intAt, requestsLeft,
                 itemsLeft, nextId>>

\* The request fails for another reason: Agent.chat rethrows.
RequestFailed ==
  /\ pc = "request"
  /\ ~Aborted
  /\ EndTurn("threw")
  /\ UNCHANGED <<cfg, pods, cli, sess, failLeft, roundStart, turnsLeft, messages, emitted, stored, inflight, slowLeft, awaiting, resp, idx,
                 done, toolEnv, child, toolRes, turnStart, intAt, requestsLeft,
                 itemsLeft, nextId>>

\* The append of sessionManager.on fails for the call the engine awaits:
\* comboReceiver.on rejects and nothing is stored.  Inside the try of a tool
\* call (the tool_call event, or the tool_result event of a tool that
\* succeeded) the rejection is caught as if the tool had failed; anywhere
\* else it leaves the adapter, and Agent.chat rethrows it unless the signal
\* has aborted.
DeliverFail(i) ==
  /\ failLeft > 0
  /\ i \in inflight
  /\ awaiting = i
  /\ failLeft' = failLeft - 1
  /\ inflight' = inflight \ {i}
  /\ awaiting' = 0
  /\ IF pc = "exec" \/ (pc = "pushres" /\ toolRes.ok)
       THEN /\ toolRes' = Settled(FALSE, "append failed")
            /\ pc' = "toolres"
            /\ UNCHANGED <<ctl, turns, cliErrors>>
       ELSE /\ EndTurn(IF ctl = "aborted" THEN "aborted" ELSE "threw")
            /\ UNCHANGED toolRes
  /\ UNCHANGED <<cfg, pods, cli, sess, roundStart, turnsLeft, messages, emitted, stored,
                 slowLeft, resp, idx, done, toolEnv, child,
                 turnStart, intAt, requestsLeft, itemsLeft, nextId>>

\* renderer.on fails for the call the engine awaits: comboReceiver.on rejects
\* at its first await, so sessionManager.on is not called for the event.  The
\* rejection travels as that of a failing append does.
RenderFail(i) ==
  /\ failLeft > 0
  /\ i \in inflight
  /\ awaiting = i
  /\ failLeft' = failLeft - 1
  /\ inflight' = inflight \ {i}
  /\ awaiting' = 0
  /\ stored' = stored
  /\ IF pc = "exec" \/ (pc = "pushres" /\ toolRes.ok)
       THEN /\ toolRes' = Settled(FALSE, "render failed")
            /\ pc' = "toolres"
            /\ UNCHANGED <<ctl, turns, cliErrors>>
       ELSE /\ EndTurn(IF ctl = "aborted" THEN "aborted" ELSE "threw")
            /\ UNCHANGED toolRes
  /\ UNCHANGED <<cfg, pods, cli, sess, roundStart, turnsLeft, messages, emitted,
                 slowLeft, resp, idx, done, toolEnv, child,
                 turnStart, intAt, requestsLeft, itemsLeft, nextId>>

\* ------------------------------------------ callModelChatCompletionsApi
\* The completion arrives; token usage, if reported, is emitted and awaited.
ChatResolve ==
  /\ pc = "request"
  /\ roundStart' = Len(emitted)
  /\ api = "completions"
  /\ ~Aborted
  /\ \E n \in 0..itemsLeft, content \in {"", "answer"} :
       \E calls \in ChatCallLists(n) :
         /\ resp' = [NoResp EXCEPT !.hasOutput = TRUE, !.content = content,
                                   !.calls = calls]
         /\ itemsLeft' = itemsLeft - n
         /\ nextId' = nextId + n
  /\ IF reportsUsage THEN Emit(<<>>, <<Ev("token_usage")>>) ELSE NoEmit
  /\ pc' = "dispatch"
  /\ UNCHANGED <<cfg, pods, cli, sess, failLeft, turnsLeft, messages, ctl, idx, done, toolEnv, child,
                 toolRes, turns, turnStart, intAt, cliErrors, requestsLeft>>

\* if (message.tool_calls ...) / else if (message.content) / neither.
ChatDispatch ==
  /\ pc = "dispatch"
  /\ api = "completions"
  /\ awaiting = 0
  /\ IF Len(resp.calls) > 0
       THEN /\ messages' = Append(messages, AssistantToolCallsMsg(resp.content, resp.calls))
            /\ idx' = 1
            /\ pc' = "toolcheck"
            /\ NoEmit
            /\ UNCHANGED <<done, ctl, turns, cliErrors>>
       ELSE IF resp.content # ""
         THEN /\ Emit(<<EvAssistantMessage(resp.content)>>, <<>>)
              /\ messages' = Append(messages, RoleMsg("assistant", resp.content))
              /\ done' = TRUE
              /\ EndTurn("final")
              /\ UNCHANGED idx
         ELSE /\ pc' = "loop"
              /\ NoEmit
              /\ UNCHANGED <<messages, idx, done, ctl, turns, cliErrors>>
  /\ UNCHANGED <<cfg, pods, cli, sess, failLeft, roundStart, turnsLeft, resp, toolEnv, child, toolRes, turnStart, intAt,
                 requestsLeft, itemsLeft, nextId>>

\* Head of the for loop over message.tool_calls: the interruption check,
\* then the awaited tool_call event.
ChatToolCheck ==
  /\ pc = "toolcheck"
  /\ api = "completions"
  /\ awaiting = 0
  /\ IF idx > Len(resp.calls)
       THEN /\ pc' = "loop"
            /\ NoEmit
       ELSE IF Aborted
         THEN /\ Emit(<<>>, <<Ev("interrupted")>>)
              /\ pc' = "throw_interrupted"
         ELSE /\ Emit(<<>>, <<EvToolCall(resp.calls[idx].id, resp.calls[idx].name,
                                   resp.calls[idx].arguments)>>)
              /\ pc' = "exec"
  /\ UNCHANGED <<cfg, pods, cli, sess, failLeft, roundStart, turnsLeft, messages, ctl, resp, idx, done, toolEnv, child,
                 toolRes, turns, turnStart, intAt, cliErrors, requestsLeft, itemsLeft,
                 nextId>>

\* ChatToolResult with a catch that lets the failure leave the adapter:
\* Agent.chat rethrows it.
ChatToolResultFatal ==
  /\ pc = "toolres"
  /\ api = "completions"
  /\ IF toolRes.ok
       THEN /\ Emit(<<>>, <<EvToolResult(resp.calls[idx].id, toolRes.value, FALSE)>>)
            /\ pc' = "pushres"
            /\ UNCHANGED <<ctl, turns, cliErrors, toolEnv>>
       ELSE /\ NoEmit
            /\ EndTurn("threw")
            /\ toolEnv' = NoEnv
  /\ UNCHANGED <<cfg, pods, cli, sess, failLeft, roundStart, turnsLeft, messages, idx, resp, done, child, toolRes,
                 turnStart, intAt, requestsLeft, itemsLeft, nextId>>

\* ChatToolResult with a catch that records the failure in the transcript
\* but emits no tool_result event.
ChatToolResultSilentCatch ==
  /\ pc = "toolres"
  /\ api = "completions"
  /\ IF toolRes.ok
       THEN /\ Emit(<<>>, <<EvToolResult(resp.calls[idx].id, toolRes.value, FALSE)>>)
            /\ pc' = "pushres"
            /\ UNCHANGED <<messages, idx, toolEnv>>
       ELSE /\ NoEmit
            /\ messages' = Append(messages, ToolMsg(resp.calls[idx].id, toolRes.value))
            /\ idx' = idx + 1
            /\ pc' = "toolcheck"
            /\ toolEnv' = NoEnv
  /\ UNCHANGED <<cfg, pods, cli, sess, failLeft, roundStart, turnsLeft, ctl, resp, done, child, toolRes, turns,
                 turnStart, intAt, cliErrors, requestsLeft, itemsLeft, nextId>>

\* try: the result event is awaited, then the tool entry is pushed.
\* catch: the failure event is not awaited and the tool entry is pushed.
ChatToolResult ==
  /\ pc = "toolres"
  /\ api = "completions"
  /\ IF toolRes.ok
       THEN /\ Emit(<<>>, <<EvToolResult(resp.calls[idx].id, toolRes.value, FALSE)>>)
            /\ pc' = "pushres"
            /\ UNCHANGED <<messages, idx, toolEnv>>
       ELSE /\ Emit(<<EvToolResult(resp.calls[idx].id, toolRes.value, TRUE)>>, <<>>)
            /\ messages' = Append(messages, ToolMsg(resp.calls[idx].id, toolRes.value))
            /\ idx' = idx + 1
            /\ pc' = "toolcheck"
            /\ toolEnv' = NoEnv
  /\ UNCHANGED <<cfg, pods, cli, sess, failLeft, roundStart, turnsLeft, ctl, resp, done, child, toolRes, turns,
                 turnStart, intAt, cliErrors, requestsLeft, itemsLeft, nextId>>

\* ChatPushResult keying every tool entry by the round's first call.
ChatPushResultFirstId ==
  /\ pc = "pushres"
  /\ api = "completions"
  /\ awaiting = 0
  /\ messages' = Append(messages, ToolMsg(resp.calls[1].id, toolRes.value))
  /\ idx' = idx + 1
  /\ toolEnv' = NoEnv
  /\ pc' = "toolcheck"
  /\ UNCHANGED <<cfg, pods, cli, sess, failLeft, roundStart, turnsLeft, emitted, stored, inflight, slowLeft, awaiting, ctl, resp, done,
                 child, toolRes, turns, turnStart, intAt, cliErrors,
                 requestsLeft, itemsLeft, nextId>>

\* After the awaited result event of the try: the tool entry is pushed.
ChatPushResult ==
  /\ pc = "pushres"
  /\ api = "completions"
  /\ awaiting = 0
  /\ messages' = Append(messages, ToolMsg(resp.calls[idx].id, toolRes.value))
  /\ idx' = idx + 1
  /\ toolEnv' = NoEnv
  /\ pc' = "toolcheck"
  /\ UNCHANGED <<cfg, pods, cli, sess, failLeft, roundStart, turnsLeft, emitted, stored, inflight, slowLeft, awaiting, ctl, resp, done,
                 child, toolRes, turns, turnStart, intAt, cliErrors,
                 requestsLeft, itemsLeft, nextId>>

\* ----------------------------------------------------- tool execution
CallName ==
  IF api = "completions" THEN resp.calls[idx].name ELSE resp.output[idx].name

CallArgs ==
  IF api = "completions" THEN resp.calls[idx].arguments
  ELSE resp.output[idx].arguments

CallId ==
  IF api = "completions" THEN resp.calls[idx].id ELSE resp.output[idx].id

\* executeTool is called: a tool that needs no child settles at once; bash
\* and rg spawn a child with the signal (killed at once if it has aborted).
ToolStart ==
  /\ pc = "exec"
  /\ awaiting = 0
  /\ \E env \in Envs(CallName, CallArgs) :
       /\ toolEnv' = env
       /\ IF SpawnsProcess(CallName, CallArgs)
            THEN /\ child' = IF Aborted THEN "killed" ELSE "running"
                 /\ pc' = "toolwait"
                 /\ UNCHANGED toolRes
            ELSE IF AwaitsGlob(CallName, CallArgs)
              THEN /\ pc' = "toolwait"
                   /\ UNCHANGED <<child, toolRes>>
              ELSE /\ toolRes' = ExecuteTool(CallName, CallArgs, env, NoRes)
                   /\ pc' = "toolres"
                   /\ UNCHANGED child
  /\ UNCHANGED <<cfg, pods, cli, sess, failLeft, roundStart, turnsLeft, messages, emitted, stored, inflight, slowLeft, awaiting, ctl, resp,
                 idx, done, turns, turnStart, intAt, cliErrors, requestsLeft,
                 itemsLeft, nextId>>

\* The child's "error" or "close" event (or glob's promise) settles the tool.
ToolSettle ==
  /\ pc = "toolwait"
  /\ IF SpawnsProcess(CallName, CallArgs)
       THEN \E first \in (IF child = "killed" THEN {"error", "close"} ELSE {"close"}) :
              /\ toolRes' = ExecuteTool(CallName, CallArgs, toolEnv,
                              ExecWithAbort(CommandIncludesRg(CallName, CallArgs),
                                            toolEnv, Aborted, first))
              /\ child' = IF first = "close" THEN "exited" ELSE child
       ELSE /\ toolRes' = ExecuteTool(CallName, CallArgs, toolEnv, NoRes)
            /\ UNCHANGED child
  /\ pc' = "toolres"
  /\ UNCHANGED <<cfg, pods, cli, sess, failLeft, roundStart, turnsLeft, messages, emitted, stored, inflight, slowLeft, awaiting, ctl, resp,
                 idx, done, toolEnv, turns, turnStart, intAt, cliErrors,
                 requestsLeft, itemsLeft, nextId>>

\* ------------------------------------------------ callModelResponsesApi
\* The response arrives and its usage is passed over: no token_usage event.
RespResolveUsageDropped ==
  /\ pc = "request"
  /\ roundStart' = Len(emitted)
  /\ api = "responses"
  /\ ~Aborted
  /\ NoEmit
  /\ \/ /\ resp' = NoResp
        /\ EndTurn("no_output")
        /\ UNCHANGED <<idx, itemsLeft, nextId>>
     \/ \E n \in 0..itemsLeft : \E output \in OutputLists(n) :
          /\ resp' = [NoResp EXCEPT !.hasOutput = TRUE, !.output = output]
          /\ itemsLeft' = itemsLeft - n
          /\ nextId' = nextId + n
          /\ idx' = 1
          /\ pc' = "item"
          /\ UNCHANGED <<ctl, turns, cliErrors>>
  /\ UNCHANGED <<cfg, pods, cli, sess, failLeft, turnsLeft, messages, done, toolEnv, child, toolRes,
                 turnStart, intAt, requestsLeft>>

\* The response arrives; token usage, if reported, is emitted without await;
\* a response without output leaves the loop.
RespResolve ==
  /\ pc = "request"
  /\ roundStart' = Len(emitted)
  /\ api = "responses"
  /\ ~Aborted
  /\ IF reportsUsage THEN Emit(<<Ev("token_usage")>>, <<>>) ELSE NoEmit
  /\ \/ /\ resp' = NoResp
        /\ EndTurn("no_output")
        /\ UNCHANGED <<idx, itemsLeft, nextId>>
     \/ \E n \in 0..itemsLeft : \E output \in OutputLists(n) :
          /\ resp' = [NoResp EXCEPT !.hasOutput = TRUE, !.output = output]
          /\ itemsLeft' = itemsLeft - n
          /\ nextId' = nextId + n
          /\ idx' = 1
          /\ pc' = "item"
          /\ UNCHANGED <<ctl, turns, cliErrors>>
  /\ UNCHANGED <<cfg, pods, cli, sess, failLeft, turnsLeft, messages, done, toolEnv, child, toolRes,
                 turnStart, intAt, requestsLeft>>

\* if (item.id === "message") { const { type, ...message } = item;
\* messages.push(item); } else { messages.push(item); }
PushedItem(item) ==
  item

\* ItemEvents with a reasoning item reported as the assistant's answer.
ItemEventsReasoningAsAnswer(item) ==
  IF item.type \in {"reasoning", "message"}
    THEN [i \in 1..Len(item.content) |-> EvAssistantMessage(item.content[i].text)]
  ELSE <<>>

\* The events of one output item, in order, each awaited.
ItemEvents(item) ==
  IF item.type = "reasoning"
    THEN [i \in 1..Len(item.content) |-> EvThinking(item.content[i].text)]
  ELSE IF item.type = "message"
    THEN [i \in 1..Len(item.content) |->
            IF item.content[i].ptype = "output_text"
              THEN EvAssistantMessage(item.content[i].text)
              ELSE EvError("Refusal: " \o item.content[i].text)]
  ELSE <<>>

\* One pass of the for loop over output, up to its first await; after the
\* last item, the while condition.
RespItem ==
  /\ pc = "item"
  /\ api = "responses"
  /\ awaiting = 0
  /\ IF idx > Len(resp.output)
       THEN /\ IF done THEN EndTurn("final")
                       ELSE /\ pc' = "loop"
                            /\ UNCHANGED <<ctl, turns, cliErrors>>
            /\ NoEmit
            /\ UNCHANGED <<messages, idx, done>>
       ELSE LET item == resp.output[idx] IN
            /\ messages' = Append(messages, PushedItem(item))
            /\ UNCHANGED <<ctl, turns, cliErrors>>
            /\ IF item.type \in {"reasoning", "message"}
                 THEN /\ IF ItemEvents(item) # <<>>
                           THEN Emit(<<>>, ItemEvents(item)) ELSE NoEmit
                      /\ done' = (done \/ (item.type = "message" /\ item.content # <<>>))
                      /\ idx' = idx + 1
                      /\ pc' = "item"
                 ELSE IF item.type = "function_call"
                   THEN /\ IF Aborted
                             THEN /\ Emit(<<>>, <<Ev("interrupted")>>)
                                  /\ pc' = "throw_interrupted"
                             ELSE /\ Emit(<<>>, <<EvToolCall(item.id, item.name, item.arguments)>>)
                                  /\ pc' = "exec"
                        /\ UNCHANGED <<idx, done>>
                   ELSE /\ Emit(<<EvError("Unknown output type in LLM response")>>, <<>>)
                        /\ idx' = idx + 1
                        /\ pc' = "item"
                        /\ UNCHANGED done
  /\ UNCHANGED <<cfg, pods, cli, sess, failLeft, roundStart, turnsLeft, resp, toolEnv, child, toolRes, turnStart, intAt,
                 requestsLeft, itemsLeft, nextId>>

\* try and catch both await the tool_result event.
RespToolResult ==
  /\ pc = "toolres"
  /\ api = "responses"
  /\ Emit(<<>>, <<EvToolResult(resp.output[idx].id, toolRes.value, ~toolRes.ok)>>)
  /\ pc' = "pushres"
  /\ UNCHANGED <<cfg, pods, cli, sess, failLeft, roundStart, turnsLeft, messages, ctl, resp, idx, done, toolEnv, child,
                 toolRes, turns, turnStart, intAt, cliErrors, requestsLeft, itemsLeft,
                 nextId>>

\* The function_call_output entry; the catch adds isError: true.
RespPushResult ==
  /\ pc = "pushres"
  /\ api = "responses"
  /\ awaiting = 0
  /\ messages' = Append(messages,
                   FunctionCallOutput(resp.output[idx].id, toolRes.value,
                                      IF toolRes.ok THEN "" ELSE "true"))
  /\ idx' = idx + 1
  /\ toolEnv' = NoEnv
  /\ pc' = "item"
  /\ UNCHANGED <<cfg, pods, cli, sess, failLeft, roundStart, turnsLeft, emitted, stored, inflight, slowLeft, awaiting, ctl, resp, done,
                 child, toolRes, turns, turnStart, intAt, cliErrors,
                 requestsLeft, itemsLeft, nextId>>

\* ------------------------------------------------------- Agent.setEvents
\* Responses flavour: one entry per user_message, thinking, tool_call,
\* tool_result and assistant_message event; other events are skipped.
ResponsesEntry(event) ==
  IF event.type = "user_message" THEN <<TypedMsg("user", "input_text", event.text)>>
  ELSE IF event.type = "thinking"
    THEN <<TypedMsg("reasoning", "reasoning_text", event.text)>>
  ELSE IF event.type = "tool_call"
    THEN <<[Blank EXCEPT !.type = "function_call", !.id = event.id,
                         !.name = event.name, !.arguments = event.args]>>
  ELSE IF event.type = "tool_result"
    THEN <<FunctionCallOutput(event.id, event.text, "")>>
  ELSE IF event.type = "assistant_message"
    THEN <<TypedMsg("message", "output_text", event.text)>>
  ELSE <<>>

RECURSIVE SetEventsResponses(_, _)
SetEventsResponses(events, acc) ==
  IF events = <<>> THEN acc
  ELSE SetEventsResponses(Tail(events), acc \o ResponsesEntry(Head(events)))

\* The chat flavour with a thinking event treated as the start of a new
\* assistant response: the tool calls collected so far are dropped.
ChatReplayStepThinkingResets(st, event) ==
  IF event.type = "user_message"
    THEN [st EXCEPT !.msgs = Append(@, RoleMsg("user", event.text))]
  ELSE IF event.type \in {"assistant_start", "thinking"} THEN [st EXCEPT !.pending = <<>>]
  ELSE IF event.type = "tool_call"
    THEN [st EXCEPT !.pending = Append(@, ChatToolCall(event.id, event.name, event.args))]
  ELSE IF event.type = "tool_result"
    THEN [msgs |-> (IF st.pending # <<>>
                      THEN Append(st.msgs, AssistantToolCallsMsg("", st.pending))
                      ELSE st.msgs) \o <<ToolMsg(event.id, event.text)>>,
          pending |-> <<>>]
  ELSE IF event.type = "assistant_message"
    THEN [st EXCEPT !.msgs = Append(@, RoleMsg("assistant", event.text))]
  ELSE st

\* Chat flavour: st is [msgs, pending]; tool calls accumulate in pending and
\* are flushed as one assistant entry by the next tool_result.
ChatReplayStep(st, event) ==
  IF event.type = "user_message"
    THEN [st EXCEPT !.msgs = Append(@, RoleMsg("user", event.text))]
  ELSE IF event.type = "assistant_start" THEN [st EXCEPT !.pending = <<>>]
  ELSE IF event.type = "tool_call"
    THEN [st EXCEPT !.pending = Append(@, ChatToolCall(event.id, event.name, event.args))]
  ELSE IF event.type = "tool_result"
    THEN [msgs |-> (IF st.pending # <<>>
                      THEN Append(st.msgs, AssistantToolCallsMsg("", st.pending))
                      ELSE st.msgs) \o <<ToolMsg(event.id, event.text)>>,
          pending |-> <<>>]
  ELSE IF event.type = "assistant_message"
    THEN [st EXCEPT !.msgs = Append(@, RoleMsg("assistant", event.text))]
  ELSE st

RECURSIVE SetEventsChat(_, _)
SetEventsChat(events, st) ==
  IF events = <<>> THEN st.msgs
  ELSE SetEventsChat(Tail(events), ChatReplayStep(st, Head(events)))

\* Agent.setEvents(events): the transcript rebuilt from an event log.
SetEvents(events) ==
  IF api = "responses"
    THEN SetEventsResponses(events,
           IF systemPrompt # ""
             THEN <<TypedMsg("system", "system_text", systemPrompt)>> ELSE <<>>)
    ELSE SetEventsChat(events,
           [msgs |-> InitialMessages(systemPrompt), pending |-> <<>>])

\* The events a log handed to setEvents may hold, one of each type.
ReplayEvents ==
  {EvUserMessage("hello"), Ev("assistant_start"), EvThinking("thought"),
   EvToolCall(1, "read", "full"), EvToolResult(1, "file data", FALSE),
   EvAssistantMessage("answer"), EvError("failed"), Ev("interrupted"),
   Ev("token_usage")}

EventLogs ==
  UNION {[1..n -> ReplayEvents] : n \in 0..MaxLog}

\* An Agent has been constructed for a session that is resumed; the events of
\* the session are about to be handed to setEvents.
InitReplay ==
  /\ api \in {"completions", "responses"}
  /\ systemPrompt \in {"", "sys"}
  /\ reportsUsage = FALSE
  /\ wide = FALSE
  /\ mode = "resume"
  /\ endless = FALSE
  /\ messages = InitialMessages(systemPrompt)
  /\ emitted = <<>>
  /\ stored \in EventLogs
  /\ inflight = {}
  /\ slowLeft = 0
  /\ awaiting = 0
  /\ pc = "restore"
  /\ ctl = "none"
  /\ resp = NoResp
  /\ idx = 0
  /\ done = FALSE
  /\ toolEnv = NoEnv
  /\ child = "none"
  /\ toolRes = NoRes
  /\ turns = <<>>
  /\ turnStart = 0
  /\ intAt = ""
  /\ cliErrors = 0
  /\ turnsLeft = 0
  /\ requestsLeft = 0
  /\ itemsLeft = 0
  /\ nextId = 1
  /\ roundStart = 0
  /\ failLeft = 0
  /\ isProcessing = FALSE
  /\ pendingMessage = ""
  /\ linesLeft = 0
  /\ received = 0
  /\ todo = <<>>
  /\ InitNoSession
  /\ InitPods

\* agent.setEvents(sessionData.events): the transcript is replaced by the one
\* rebuilt from the log.
SetEventsCall ==
  /\ mode = "resume"
  /\ pc = "restore"
  /\ messages' = SetEvents(stored)
  /\ pc' = "idle"
  /\ UNCHANGED <<cfg, pods, cli, sess, emitted, stored, inflight, slowLeft, awaiting,
                 ctl, resp, idx, done, toolEnv, child, toolRes, turns, turnStart,
                 intAt, cliErrors, turnsLeft, requestsLeft, itemsLeft, nextId,
                 roundStart, failLeft>>

NextReplay ==
  SetEventsCall

SpecReplay ==
  InitReplay /\ [][NextReplay]_vars

\* ------------------------------------------------------------ TuiRenderer
\* Agent.chat has returned by throwing and no turn has begun since.
LastTurnThrew ==
  pc = "idle" /\ turns # <<>> /\ turns[Len(turns)] = "threw"

\* TuiRenderer.render, as far as editor.disableSubmit goes: assistant_start
\* sets it, assistant_message and error clear it, every other event leaves it.
RenderDisableSubmit(disableSubmit, event) ==
  IF event.type = "assistant_start" THEN TRUE
  ELSE IF event.type \in {"assistant_message", "error"} THEN FALSE
  ELSE disableSubmit

\* editor.disableSubmit after the renderer was given the events in order.  The
\* Escape handler (onGlobalKeyPress) calls the interrupt callback and stops
\* the animation; it does not touch the flag.
RECURSIVE DisableSubmitAfter(_, _)
DisableSubmitAfter(events, disableSubmit) ==
  IF events = <<>> THEN disableSubmit
  ELSE DisableSubmitAfter(Tail(events), RenderDisableSubmit(disableSubmit, Head(events)))

\* The flag as the TUI loop leaves it: the loop gives the renderer an error
\* event when Agent.chat threw.
DisableSubmit ==
  IF LastTurnThrew THEN FALSE ELSE DisableSubmitAfter(emitted, FALSE)

\* ------------------------------------------------- runJsonInteractiveMode
\* What a line of stdin parses to: an interrupt command, a message command
\* with content, or anything the handler answers with an error event.
Commands == {"interrupt", "message", "rejected"}

\* Number of Agent.chat calls that have started and not yet returned.
AsksInProgress ==
  IF pc = "overlap" THEN 2 ELSE IF pc \in {"idle", "returned"} THEN 0 ELSE 1

\* rl.on("line"): runs while the engine is suspended in an await or idle.
\* interrupt: agent.interrupt(), then isProcessing = false.  message: queued
\* while isProcessing, otherwise processMessage sets isProcessing and calls
\* agent.ask, which runs up to its first await.  An ask begun while another
\* has not returned shares its transcript and replaces its AbortController;
\* the two interleaved calls are not followed further (pc = "overlap").
JsonLine(cmd) ==
  /\ mode = "json"
  /\ linesLeft > 0
  /\ pc = "idle" \/ Suspended
  /\ pc # "overlap"
  /\ linesLeft' = linesLeft - 1
  /\ received' = IF cmd = "message" THEN received + 1 ELSE received
  /\ UNCHANGED <<turnsLeft, todo>>
  /\ CASE cmd = "interrupt" ->
            /\ ctl' = IF ctl = "live" THEN "aborted" ELSE ctl
            /\ child' = IF ctl = "live" /\ child = "running" THEN "killed" ELSE child
            /\ intAt' = IF ctl = "live"
                          THEN (IF awaiting # 0 THEN "emit" ELSE pc) ELSE intAt
            /\ isProcessing' = FALSE
            /\ UNCHANGED <<cfg, pods, sess, failLeft, roundStart, messages, emitted,
                           stored, inflight, slowLeft, awaiting, pc, resp, idx,
                           done, toolEnv, toolRes, turns, turnStart, cliErrors,
                           requestsLeft, itemsLeft, nextId, pendingMessage>>
       [] cmd = "message" /\ isProcessing ->
            /\ \E text \in UserTexts : pendingMessage' = text
            /\ UNCHANGED <<engine, pods, sess, isProcessing>>
       [] cmd = "message" /\ ~isProcessing ->
            /\ isProcessing' = TRUE
            /\ \E text \in UserTexts : AskStart(text)
            /\ pc' = IF pc = "idle" THEN "loop" ELSE "overlap"
            /\ UNCHANGED pendingMessage
       [] cmd = "rejected" ->
            /\ cliErrors' = cliErrors + 1
            /\ UNCHANGED <<cfg, pods, sess, failLeft, roundStart, messages, emitted,
                           stored, inflight, slowLeft, awaiting, pc, ctl, resp,
                           idx, done, toolEnv, child, toolRes, turns, turnStart,
                           intAt, requestsLeft, itemsLeft, nextId, isProcessing,
                           pendingMessage>>

\* processMessage after agent.ask has returned or thrown (the catch gave the
\* renderer its error event): finally, isProcessing = false, and a pending
\* message is taken up by a nested processMessage.
ProcessMessageFinally ==
  /\ mode = "json"
  /\ pc = "returned"
  /\ UNCHANGED <<turnsLeft, linesLeft, received, todo>>
  /\ IF pendingMessage # ""
       THEN /\ pendingMessage' = ""
            /\ isProcessing' = TRUE
            /\ AskStart(pendingMessage)
            /\ pc' = "loop"
       ELSE /\ isProcessing' = FALSE
            /\ pc' = "idle"
            /\ UNCHANGED <<cfg, pods, sess, failLeft, roundStart, messages, emitted,
                           stored, inflight, slowLeft, awaiting, ctl, resp, idx,
                           done, toolEnv, child, toolRes, turns, turnStart,
                           intAt, cliErrors, requestsLeft, itemsLeft, nextId,
                           pendingMessage>>

\* ----------------------------------------------------------- SessionManager
\* One line of a session file; timestamps and payloads are left out.
SessionEntry(id) ==
  [type |-> "session", id |-> id]

MessageEntry ==
  [type |-> "message", id |-> 0]

UsageEntry ==
  [type |-> "usage", id |-> 0]

\* readdirSync(sessionDir), filtered: the session files that exist.
SessionFiles ==
  {f \in 1..MaxFiles : files[f] # <<>>}

\* statSync(f).mtime as a rank: a file written later has a greater rank.
Mtime(f) ==
  Len(recent) + 1 - (CHOOSE k \in 1..Len(recent) : recent[k] = f)

\* findMostRecentSession picking the first file of the ascending order.
FindOldestSession ==
  IF SessionFiles = {} THEN 0
  ELSE CHOOSE f \in SessionFiles : \A g \in SessionFiles : Mtime(f) <= Mtime(g)

\* findMostRecentSession: the files sorted by mtime, latest first; the first
\* of them, 0 (null) when there is none.
FindMostRecentSession ==
  IF SessionFiles = {} THEN 0
  ELSE CHOOSE f \in SessionFiles : \A g \in SessionFiles : Mtime(g) <= Mtime(f)

\* loadSessionId: the id of the first "session" line; 0 when the file has
\* none, in which case a fresh id is generated.
LoadSessionId(lines) ==
  IF \E k \in 1..Len(lines) : lines[k].type = "session"
    THEN lines[CHOOSE k \in 1..Len(lines) :
                 /\ lines[k].type = "session"
                 /\ \A j \in 1..(k - 1) : lines[j].type # "session"].id
    ELSE 0

\* new SessionManager(continueSession), in this or a later process.  A new
\* session gets a fresh id and a file named after it, which is created by
\* the first append.
NewSessionManager(continue) ==
  /\ continueSession' = continue
  /\ IF continue /\ FindMostRecentSession # 0
       THEN LET loaded == LoadSessionId(files[FindMostRecentSession]) IN
            /\ sessionFile' = FindMostRecentSession
            /\ continued' = TRUE
            /\ IF loaded # 0
                 THEN /\ sessionId' = loaded
                      /\ UNCHANGED nextSession
                 ELSE /\ nextSession <= MaxFiles
                      /\ sessionId' = nextSession
                      /\ nextSession' = nextSession + 1
       ELSE /\ nextSession <= MaxFiles
            /\ sessionId' = nextSession
            /\ sessionFile' = nextSession
            /\ nextSession' = nextSession + 1
            /\ continued' = FALSE
  /\ UNCHANGED <<engine, pods, cli, files, recent>>

\* appendFileSync(sessionFile, JSON.stringify(entry) + "\n"): the file is
\* created if absent, gets one more line, and becomes the most recent.
AppendFileSync(entry) ==
  /\ files' = [files EXCEPT ![sessionFile] = Append(@, entry)]
  /\ recent' = <<sessionFile>> \o SelectSeq(recent, LAMBDA f : f # sessionFile)
  /\ UNCHANGED <<engine, pods, cli, sessionFile, sessionId, continued, continueSession,
                 nextSession>>

LogSession ==
  /\ sessionFile # 0
  /\ Len(files[sessionFile]) < MaxRecords
  /\ AppendFileSync(SessionEntry(sessionId))

\* logMessage writing the file anew.
LogMessageOverwrite ==
  /\ sessionFile # 0
  /\ Len(files[sessionFile]) < MaxRecords
  /\ files' = [files EXCEPT ![sessionFile] = <<MessageEntry>>]
  /\ recent' = <<sessionFile>> \o SelectSeq(recent, LAMBDA f : f # sessionFile)
  /\ UNCHANGED <<engine, pods, cli, sessionFile, sessionId, continued, continueSession,
                 nextSession>>

LogMessage ==
  /\ sessionFile # 0
  /\ Len(files[sessionFile]) < MaxRecords
  /\ AppendFileSync(MessageEntry)

LogUsage ==
  /\ sessionFile # 0
  /\ Len(files[sessionFile]) < MaxRecords
  /\ AppendFileSync(UsageEntry)

\* loadSession: the session's data, or null (FALSE) when the file has no
\* session line or no message line.
LoadSession(lines) ==
  /\ \E k \in 1..Len(lines) : lines[k].type = "session"
  /\ \E k \in 1..Len(lines) : lines[k].type = "message"

\* A process starts: new SessionManager(continueSession), then the Agent is
\* constructed with the resumed session's configuration, if loadSession
\* gives one, or else with the caller's (prompt: its system prompt, "" for
\* none).  The constructor of an agent with a system prompt calls
\* logSession and logMessage.
StartProcess(continue, prompt) ==
  LET found == IF continue THEN FindMostRecentSession ELSE 0
      loaded == IF found # 0 THEN LoadSessionId(files[found]) ELSE 0
      file == IF found # 0 THEN found ELSE nextSession
      id == IF loaded # 0 THEN loaded ELSE nextSession
      resumed == found # 0 /\ LoadSession(files[found])
      \* a session line exists only if the logged configuration had a prompt
      hasPrompt == resumed \/ prompt # ""
  IN /\ (found = 0 \/ loaded = 0) => nextSession <= MaxFiles
     /\ sessionFile' = file
     /\ sessionId' = id
     /\ continued' = (found # 0)
     /\ continueSession' = continue
     /\ nextSession' = IF found # 0 /\ loaded # 0 THEN nextSession ELSE nextSession + 1
     /\ IF hasPrompt
          THEN /\ Len(files[file]) + 2 <= UseRecords
               /\ files' = [files EXCEPT ![file] = @ \o <<SessionEntry(id), MessageEntry>>]
               /\ recent' = <<file>> \o SelectSeq(recent, LAMBDA f : f # file)
          ELSE UNCHANGED <<files, recent>>
     /\ UNCHANGED <<engine, pods, cli>>

\* Agent.chat: this.sessionManager?.logMessage(userMsg).
ChatLogMessage ==
  /\ sessionFile # 0
  /\ Len(files[sessionFile]) < UseRecords
  /\ AppendFileSync(MessageEntry)

\* The keys an invocation may carry and the models it may name.
ApiKeys == {"key1", "key2"}

ModelIds == {"gpt-oss", "qwen"}

\* promptModel: the configuration built from the invocation; the endpoint
\* and the gpt-oss flag follow from the model chosen.
InvokedConfig(apiKey, model, prompt) ==
  [apiKey |-> apiKey,
   baseURL |-> "http://host/" \o model,
   model |-> model,
   isGptOss |-> (model = "gpt-oss"),
   systemPrompt |-> prompt]

\* Agent.constructor: the argument it hands to logSession.
LoggedConfig(c) ==
  [model |-> c.model, baseURL |-> c.baseURL, isGptOss |-> c.isGptOss,
   systemPrompt |-> c.systemPrompt]

\* logSession: the line written for a configuration, with its payload.
SessionRecord(id, c) ==
  [type |-> "session", id |-> id,
   config |-> [model |-> c.model, baseURL |-> c.baseURL,
               isGptOss |-> c.isGptOss, systemPrompt |-> c.systemPrompt]]

\* loadSession: config is assigned at every "session" line, so the last
\* one of the file is returned.
StoredConfig(lines) ==
  lines[CHOOSE k \in 1..Len(lines) :
          /\ lines[k].type = "session"
          /\ \A j \in (k + 1)..Len(lines) : lines[j].type # "session"].config

\* { ...sessionData.config, apiKey } keeping the invocation's configuration.
ResumeConfigFromInvocation(saved, invoked) ==
  invoked

\* { ...sessionData.config, apiKey }: the stored fields, and the key of the
\* current invocation.
ResumeConfig(saved, invoked) ==
  [f \in DOMAIN saved \cup {"apiKey"} |->
     IF f = "apiKey" THEN invoked.apiKey ELSE saved[f]]

\* Whether --continue finds a session that loadSession can restore.
Resumable(continue) ==
  /\ continue
  /\ FindMostRecentSession # 0
  /\ LoadSession(files[FindMostRecentSession])

\* The configuration promptModel constructs the Agent with.
ConstructedConfig(continue, apiKey, model, prompt) ==
  IF Resumable(continue)
    THEN ResumeConfig(StoredConfig(files[FindMostRecentSession]),
                      InvokedConfig(apiKey, model, prompt))
    ELSE InvokedConfig(apiKey, model, prompt)

\* The session directory after promptModel has constructed the manager and
\* the Agent: an Agent with a system prompt logs its configuration and the
\* prompt.
SessionWrites(continue, apiKey, model, prompt) ==
  LET found == IF continue THEN FindMostRecentSession ELSE 0
      loaded == IF found # 0 THEN LoadSessionId(files[found]) ELSE 0
      file == IF found # 0 THEN found ELSE nextSession
      id == IF loaded # 0 THEN loaded ELSE nextSession
      c == ConstructedConfig(continue, apiKey, model, prompt)
  IN IF c.systemPrompt # ""
       THEN [files EXCEPT ![file] =
               @ \o <<SessionRecord(id, LoggedConfig(c)), MessageEntry>>]
       ELSE files

\* promptModel up to the interactive loop: new SessionManager(opts.continue),
\* loadSession if a session is continued, and the Agent constructed with the
\* restored or the invoked configuration.
PromptModel(continue, apiKey, model, prompt) ==
  LET found == IF continue THEN FindMostRecentSession ELSE 0
      loaded == IF found # 0 THEN LoadSessionId(files[found]) ELSE 0
      file == IF found # 0 THEN found ELSE nextSession
      c == ConstructedConfig(continue, apiKey, model, prompt)
  IN /\ (found = 0 \/ loaded = 0) => nextSession <= MaxFiles
     /\ sessionFile' = file
     /\ sessionId' = IF loaded # 0 THEN loaded ELSE nextSession
     /\ continued' = (found # 0)
     /\ continueSession' = continue
     /\ nextSession' = IF found # 0 /\ loaded # 0 THEN nextSession ELSE nextSession + 1
     /\ config' = c
     /\ IF c.systemPrompt # ""
          THEN /\ Len(files[file]) + 2 <= UseRecords
               /\ files' = SessionWrites(continue, apiKey, model, prompt)
               /\ recent' = <<file>> \o SelectSeq(recent, LAMBDA f : f # file)
          ELSE UNCHANGED <<files, recent>>
     /\ UNCHANGED <<api, systemPrompt, reportsUsage, wide, mode, endless, messages,
                    emitted, stored, inflight, slowLeft, awaiting, pc, ctl, resp,
                    idx, done, toolEnv, child, toolRes, turns, turnStart, intAt,
                    cliErrors, turnsLeft, requestsLeft, itemsLeft, nextId,
                    roundStart, failLeft, pods, cli>>

\* ------------------------------------------------------- runSingleShotMode
\* runSingleShotMode taking the last of the remaining messages first.
SingleShotLastFirst ==
  /\ mode = "single"
  /\ pc = "idle"
  /\ todo # <<>>
  /\ AskStart(todo[Len(todo)])
  /\ pc' = "loop"
  /\ todo' = SubSeq(todo, 1, Len(todo) - 1)
  /\ UNCHANGED <<turnsLeft, isProcessing, pendingMessage, linesLeft, received>>

\* for (const msg of messages): the next pass begins when the awaited ask
\* has returned or its error event has been given to the renderer.
SingleShotNext ==
  /\ mode = "single"
  /\ pc = "idle"
  /\ todo # <<>>
  /\ AskStart(Head(todo))
  /\ pc' = "loop"
  /\ todo' = Tail(todo)
  /\ UNCHANGED <<turnsLeft, isProcessing, pendingMessage, linesLeft, received>>

\* ------------------------------------------------------------ specification
Next ==
  \/ \E text \in UserTexts : Chat(text)
  \/ Interrupt
  \/ \E i \in inflight : Deliver(i)
  \/ LoopCheck
  \/ ThrowInterrupted
  \/ RequestAborted
  \/ RequestFailed
  \/ ChatResolve
  \/ ChatDispatch
  \/ ChatToolCheck
  \/ ChatToolResult
  \/ ChatPushResult
  \/ ToolStart
  \/ ToolSettle
  \/ RespResolve
  \/ RespItem
  \/ RespToolResult
  \/ RespPushResult

\* JSON interactive mode: lines of stdin take the place of direct calls.
NextJson ==
  \/ \E cmd \in Commands : JsonLine(cmd)
  \/ ProcessMessageFinally
  \/ \E i \in inflight : Deliver(i)
  \/ LoopCheck
  \/ ThrowInterrupted
  \/ RequestAborted
  \/ RequestFailed
  \/ ChatResolve
  \/ ChatDispatch
  \/ ChatToolCheck
  \/ ChatToolResult
  \/ ChatPushResult
  \/ ToolStart
  \/ ToolSettle
  \/ RespResolve
  \/ RespItem
  \/ RespToolResult
  \/ RespPushResult

Spec ==
  Init /\ [][Next]_vars

SpecTools ==
  InitTools /\ [][Next]_vars

SpecSinks ==
  InitSinks /\ [][Next]_vars

\* The endpoint answers every request and every step that can be taken is
\* eventually taken.
SpecRounds ==
  InitRounds /\ [][Next]_vars /\ WF_vars(Next)

\* The engine with a session manager whose append may fail.
NextSinkFail ==
  \/ Next
  \/ \E i \in inflight : DeliverFail(i)

SpecSinkFail ==
  InitSinkFail /\ [][NextSinkFail]_vars

\* The engine with a renderer whose on() may fail.
NextRenderFail ==
  \/ Next
  \/ \E i \in inflight : RenderFail(i)

SpecRenderFail ==
  InitSinkFail /\ [][NextRenderFail]_vars

SpecConv ==
  InitConv /\ [][Next]_vars

\* Processes that construct a SessionManager and write through it.
NextSession ==
  \/ \E continue \in BOOLEAN : NewSessionManager(continue)
  \/ LogSession
  \/ LogMessage
  \/ LogUsage

SpecSession ==
  InitSession /\ [][NextSession]_vars

\* Processes that run an Agent with a SessionManager.
NextSessionUse ==
  \/ \E continue \in BOOLEAN, prompt \in {"", "sys"} :
       StartProcess(continue, prompt)
  \/ ChatLogMessage

SpecSessionUse ==
  InitSession /\ [][NextSessionUse]_vars

\* Invocations of promptModel with their keys, models and prompts, each
\* left before a message is typed.
NextResume ==
  \E continue \in BOOLEAN, apiKey \in ApiKeys, model \in ModelIds,
     prompt \in {"", "sys"} :
    PromptModel(continue, apiKey, model, prompt)

SpecResume ==
  InitSession /\ [][NextResume]_vars

-----------------------------------------------------------------------------
\* Model management on a pod (commands/models.ts).  Every `pi start` and
\* `pi stop` is a process of its own; the processes share the configuration
\* file and nothing else.

\* The first port getNextPort tries.
BasePort == 8001

\* Ports recorded for the models of the pod.
UsedPorts(m) ==
  {m[n] : n \in {k \in ModelNames : m[k] # 0}}

\* getNextPort: the smallest port from 8001 upwards no recorded model uses.
GetNextPort(m) ==
  CHOOSE port \in BasePort..(BasePort + Cardinality(ModelNames)) :
    /\ port \notin UsedPorts(m)
    /\ \A q \in BasePort..(port - 1) : q \in UsedPorts(m)

\* startModel up to its first await: the pod is read from the configuration
\* file, a name already recorded ends the command, and the port is chosen from
\* the models read.
StartModel(p, name) ==
  /\ starts[p].pc = "none"
  /\ models[name] = 0
  /\ starts' = [starts EXCEPT ![p] =
                  [pc |-> "starting", name |-> name, port |-> GetNextPort(models)]]
  /\ UNCHANGED <<engine, cli, sess, models>>

\* startModel leaves before recording anything: the download failed or the
\* server process did not start.
StartExit(p) ==
  /\ starts[p].pc = "starting"
  /\ starts' = [starts EXCEPT ![p] = NoStart]
  /\ UNCHANGED <<engine, cli, sess, models>>

\* startModel after the download and the launch: the configuration is read
\* again and the model is recorded under the port chosen at the beginning.
StartSave(p) ==
  /\ starts[p].pc = "starting"
  /\ models' = [models EXCEPT ![starts[p].name] = starts[p].port]
  /\ starts' = [starts EXCEPT ![p].pc = "monitoring"]
  /\ UNCHANGED <<engine, cli, sess>>

\* startModel stops watching the log: a server that failed is removed from the
\* configuration again.
StartDone(p, serverFailed) ==
  /\ starts[p].pc = "monitoring"
  /\ models' = IF serverFailed THEN [models EXCEPT ![starts[p].name] = 0] ELSE models
  /\ starts' = [starts EXCEPT ![p] = NoStart]
  /\ UNCHANGED <<engine, cli, sess>>

\* stopModel: a recorded model is killed and removed from the configuration.
StopModel(name) ==
  /\ models[name] # 0
  /\ models' = [models EXCEPT ![name] = 0]
  /\ UNCHANGED <<engine, cli, sess, starts>>

\* stopAllModels: with at least one model recorded, all are removed.
StopAllModels ==
  /\ UsedPorts(models) # {}
  /\ models' = [n \in ModelNames |-> 0]
  /\ UNCHANGED <<engine, cli, sess, starts>>

\* The model commands of one pod, no conversation running.
InitModels ==
  InitSession

NextModels ==
  \/ \E p \in StartCommands, name \in ModelNames : StartModel(p, name)
  \/ \E p \in StartCommands : StartExit(p)
  \/ \E p \in StartCommands : StartSave(p)
  \/ \E p \in StartCommands, serverFailed \in BOOLEAN : StartDone(p, serverFailed)
  \/ \E name \in ModelNames : StopModel(name)
  \/ StopAllModels

SpecModels ==
  InitModels /\ [][NextModels]_vars


\* Single-shot mode: nothing calls interrupt().
NextSingle ==
  \/ SingleShotNext
  \/ \E i \in inflight : Deliver(i)
  \/ LoopCheck
  \/ RequestFailed
  \/ ChatResolve
  \/ ChatDispatch
  \/ ChatToolCheck
  \/ ChatToolResult
  \/ ChatPushResult
  \/ ToolStart
  \/ ToolSettle
  \/ RespResolve
  \/ RespItem
  \/ RespToolResult
  \/ RespPushResult

SpecSingle ==
  InitSingle /\ [][NextSingle]_vars

SpecJson ==
  InitJson /\ [][NextJson]_vars

\* ------------------------------------------------------------------ claims
TurnEvents ==
  SubSeq(emitted, turnStart + 1, Len(emitted))

Count(events, type) ==
  Cardinality({i \in 1..Len(events) : events[i].type = type})

LastTurn ==
  IF turns = <<>> THEN "" ELSE turns[Len(turns)]

TurnOver ==
  pc = "idle" /\ turns # <<>>

ToolInProgress ==
  pc \in {"exec", "toolwait", "toolres"}

ResultsFor(i) ==
  {j \in (i + 1)..Len(emitted) :
     emitted[j].type = "tool_result" /\ emitted[j].id = emitted[i].id}

\* C1: every tool_call event is answered by exactly one tool_result event
\* with the same toolCallId, emitted right after it and so before the round
\* ends, whatever the tool's outcome (result, failure, cancellation); only
\* the call being executed right now has none yet.
C1_ToolCallAnswered ==
  \A i \in 1..Len(emitted) :
    emitted[i].type = "tool_call" =>
      IF ToolInProgress /\ i = Len(emitted)
        THEN ResultsFor(i) = {}
        ELSE ResultsFor(i) = {i + 1}

\* C1 witness: a turn with two tool calls, one answered by a result and one
\* cut off by interrupt() while its child was running, has ended.
C1_Witness ==
  /\ TurnOver
  /\ intAt = "toolwait"
  /\ Count(TurnEvents, "tool_call") = 2
  /\ \E i, j \in 1..Len(TurnEvents) :
       /\ TurnEvents[i].type = "tool_result" /\ ~TurnEvents[i].isError
       /\ TurnEvents[j].type = "tool_result" /\ TurnEvents[j].isError
       /\ TurnEvents[j].text = "Interrupted"

\* C2: a turn in which interrupt() fired while a tool was executing emits
\* exactly one interrupted event and no error event, and the tool's child
\* is not running when the turn is over.
C2_InterruptDuringTool ==
  (TurnOver /\ intAt = "toolwait") =>
    /\ Count(TurnEvents, "interrupted") = 1
    /\ Count(TurnEvents, "error") = 0
    /\ LastTurn # "threw"
    /\ child # "running"

\* C3: a turn in which interrupt() fired while the model request was in
\* flight emits exactly one interrupted event and no error event.
C3_InterruptDuringRequest ==
  (TurnOver /\ intAt = "request") =>
    /\ Count(TurnEvents, "interrupted") = 1
    /\ Count(TurnEvents, "error") = 0
    /\ LastTurn # "threw"

IsPrefix(s, t) ==
  Len(s) <= Len(t) /\ SubSeq(t, 1, Len(s)) = s

\* Every turn so far ran to its final assistant message and every emitted
\* event has reached the session log.
CompletedConversation ==
  /\ TurnOver
  /\ inflight = {}
  /\ \A k \in 1..Len(turns) : turns[k] = "final"

\* C4: chat flavour: after a conversation of completed turns, the transcript
\* Agent.setEvents rebuilds from the persisted events equals the transcript
\* the engine holds, entry for entry.
C4_ChatReplayEqualsLive ==
  (CompletedConversation /\ api = "completions") => SetEvents(stored) = messages

\* C5: responses flavour: after a conversation of completed turns, the
\* transcript Agent.setEvents rebuilds from the persisted events equals the
\* transcript the engine holds, entry for entry.
C5_ResponsesReplayEqualsLive ==
  (CompletedConversation /\ api = "responses") => SetEvents(stored) = messages

\* C6: the session log holds the emitted events in emission order: it is
\* always a prefix of what the renderer has received, and equals it once no
\* append is outstanding.
C6_StoreFollowsEmission ==
  /\ IsPrefix(stored, emitted)
  /\ inflight = {} => stored = emitted

FinalTexts(entries) ==
  {k \in 1..Len(entries) :
     /\ entries[k].role = "assistant" \/ entries[k].type = "message"
     /\ entries[k].tool_calls = <<>>}

\* C7: when the persisted log ends with an interrupted event, the rebuilt
\* transcript has one final-text assistant entry per assistant_message event
\* and its last entry is the last entry the live engine had committed.
C7_ReplayEndsAtLastCommitted ==
  (inflight = {} /\ stored # <<>> /\ stored[Len(stored)].type = "interrupted") =>
    LET rebuilt == SetEvents(stored) IN
      /\ Cardinality(FinalTexts(rebuilt)) = Count(stored, "assistant_message")
      /\ rebuilt # <<>>
      /\ rebuilt[Len(rebuilt)] = messages[Len(messages)]

InToolLoop ==
  /\ api = "completions"
  /\ pc \in {"toolcheck", "exec", "toolwait", "toolres", "pushres"}

\* The tool_call events emitted for the calls of the current chat round.
RoundStarts ==
  SelectSeq(emitted, LAMBDA e :
    e.type = "tool_call" /\ \E j \in 1..Len(resp.calls) : resp.calls[j].id = e.id)

\* C8: while a chat round with n >= 2 tool calls is being worked through,
\* with idx - 1 calls finished: the transcript ends with the requesting
\* assistant entry followed by the tool entries of calls 1..idx-1 in call
\* order, and the tools started so far are exactly calls 1..idx-1, plus call
\* idx once its tool_call event is out -- call idx starts only after the
\* entries of all earlier calls are recorded.
C8_SequentialToolCalls ==
  (InToolLoop /\ Len(resp.calls) >= 2) =>
    LET k == idx - 1
        base == Len(messages) - k
        m == IF pc = "toolcheck" THEN k ELSE k + 1
    IN /\ base >= 1
       /\ messages[base] = AssistantToolCallsMsg(resp.content, resp.calls)
       /\ \A j \in 1..k :
            /\ messages[base + j].role = "tool"
            /\ messages[base + j].tool_call_id = resp.calls[j].id
       /\ Len(RoundStarts) = m
       /\ \A j \in 1..m : RoundStarts[j].id = resp.calls[j].id

\* C8 witness: a round of two calls is finished, one tool having failed and
\* the other succeeded.
C8_Witness ==
  /\ InToolLoop
  /\ pc = "toolcheck"
  /\ Len(resp.calls) = 2
  /\ idx = 3
  /\ \E i, j \in 1..Len(emitted) :
       /\ emitted[i].type = "tool_result" /\ emitted[i].isError
       /\ emitted[j].type = "tool_result" /\ ~emitted[j].isError
       /\ {emitted[i].id, emitted[j].id} = {resp.calls[1].id, resp.calls[2].id}

NonZeroStderrOnly ==
  /\ toolEnv.code # 0
  /\ ~(toolEnv.code = 1 /\ CommandIncludesRg(CallName, CallArgs))
  /\ toolEnv.err
  /\ ~toolEnv.out

\* The calls for which executeTool throws.
ToolFails ==
  \/ CallArgs = "bad"
  \/ /\ CallName = "bash"
     /\ HasParam(CallArgs)
     /\ Aborted \/ NonZeroStderrOnly
  \/ /\ CallName = "rg"
     /\ HasParam(CallArgs)
     /\ Aborted
     /\ child = "exited"

ToolLocalFailure ==
  \/ CallArgs = "empty" /\ CallName \in {"read", "bash", "glob", "rg"}
  \/ CallName \in {"read", "list"} /\ CallArgs # "bad" /\ ~toolEnv.exists
  \/ /\ CallName = "bash"
     /\ HasParam(CallArgs)
     /\ toolEnv.code # 0
     /\ ~(toolEnv.code = 1 /\ CommandIncludesRg(CallName, CallArgs))

C10_ToolFailureNotFatal ==
  /\ [][(pc = "toolres" /\ ~toolRes.ok) =>
          /\ emitted' = Append(emitted, EvToolResult(CallId, toolRes.value, TRUE))
          /\ turns' = turns
          /\ cliErrors' = cliErrors
          /\ IF api = "completions"
               THEN /\ messages' = Append(messages, ToolMsg(CallId, toolRes.value))
                    /\ pc' = "toolcheck"
                    /\ idx' = idx + 1
               ELSE pc' = "pushres"]_vars
  /\ [][(pc = "pushres" /\ awaiting = 0 /\ ~toolRes.ok) =>
          /\ messages' = Append(messages, FunctionCallOutput(CallId, toolRes.value, "true"))
          /\ emitted' = emitted
          /\ turns' = turns
          /\ cliErrors' = cliErrors
          /\ pc' = "item"
          /\ idx' = idx + 1]_vars

\* C10 witness: a turn in which a tool call with unparsable arguments failed
\* has gone on to another model round and ended with the final answer.
C10_Witness ==
  /\ TurnOver
  /\ LastTurn = "final"
  /\ Count(TurnEvents, "error") = 0
  /\ \E i \in 1..Len(TurnEvents) :
       /\ TurnEvents[i].type = "tool_result"
       /\ TurnEvents[i].isError
       /\ TurnEvents[i].text = "SyntaxError"
  /\ \E k \in 1..Len(messages) :
       \E j \in (k + 1)..Len(messages) :
         /\ "SyntaxError" \in {messages[k].output} \cup
                              {messages[k].content[q].text : q \in 1..Len(messages[k].content)}
         /\ messages[j].role = "assistant"

\* C11: the round loop ends: whatever the model keeps returning, a turn that
\* has begun eventually ends (the cap on rounds is what would make it end for
\* a model that never produces final text).
C11_RoundLoopEnds ==
  [](pc # "idle" => <>(pc = "idle"))

\* Error events the renderer has been given: by the engine and by the caller
\* of Agent.chat.
ErrorsShown ==
  Count(emitted, "error") + cliErrors

UnknownItemPassed ==
  /\ api = "responses"
  /\ pc \in {"item", "exec", "toolwait", "toolres", "pushres", "loop", "request"}
  /\ \E k \in 1..Len(resp.output) :
       k < idx /\ resp.output[k].type = "web_search_call"

\* C12: a model request that fails, or whose response lacks its output, for
\* another reason than cancellation ends the turn in that step, with exactly
\* one error event shown and the transcript as it was; and the engine never
\* goes on past an output item of a type it does not know.
C12_FailedRequestEndsTurn ==
  /\ [][(pc = "request" /\ ~Aborted /\ pc' = "idle"
          /\ turns'[Len(turns')] \in {"threw", "no_output"}) =>
            /\ messages' = messages
            /\ ErrorsShown' = ErrorsShown + 1]_vars
  /\ [](~UnknownItemPassed)

\* C13: in JSON interactive mode at most one Agent.chat call is in progress
\* at any time: a new call starts only after the previous one has returned.
C13_OneAskAtATime ==
  mode = "json" => AsksInProgress <= 1

\* The events of the current round that stem from its output items.
RoundItemEvents ==
  SelectSeq(SubSeq(emitted, roundStart + 1, Len(emitted)),
            LAMBDA e : e.type # "token_usage")

Kinds(events) ==
  [i \in 1..Len(events) |-> events[i].type]

\* The kinds of event a fully processed output item gives rise to.
ItemKinds(item) ==
  CASE item.type = "reasoning" -> [i \in 1..Len(item.content) |-> "thinking"]
    [] item.type = "message" ->
         [i \in 1..Len(item.content) |->
            IF item.content[i].ptype = "output_text" THEN "assistant_message"
                                                    ELSE "error"]
    [] item.type = "function_call" -> <<"tool_call", "tool_result">>
    [] OTHER -> <<"error">>

RECURSIVE KindsUpTo(_, _)
KindsUpTo(output, k) ==
  IF k = 0 THEN <<>> ELSE KindsUpTo(output, k - 1) \o ItemKinds(output[k])

InResponsesRound ==
  /\ api = "responses"
  /\ resp.hasOutput
  /\ pc \in {"item", "exec", "toolwait", "toolres", "pushres"}

\* C14: in the structured-output adapter the items of a round are processed
\* in the order returned: the round's events are those of items 1..idx-1 in
\* item order, followed by what item idx has emitted so far; so for a round
\* returning a reasoning item and then a function call, thinking comes
\* before tool_call and the round has no assistant_message event.
C14_ItemsInOrder ==
  /\ InResponsesRound =>
       Kinds(RoundItemEvents) =
         KindsUpTo(resp.output, idx - 1)
           \o (IF pc \in {"exec", "toolwait", "toolres"} THEN <<"tool_call">>
               ELSE IF pc = "pushres" THEN <<"tool_call", "tool_result">>
               ELSE <<>>)
  /\ (InResponsesRound /\ Len(resp.output) = 2
        /\ resp.output[1].type = "reasoning"
        /\ resp.output[2].type = "function_call") =>
       /\ Count(RoundItemEvents, "assistant_message") = 0
       /\ \A j \in 1..Len(RoundItemEvents) :
            RoundItemEvents[j].type = "tool_call" =>
              /\ RoundItemEvents[j].id = resp.output[2].id
              /\ j > 1
              /\ RoundItemEvents[j - 1].type = "thinking"

\* C14 witness: a round of a reasoning item and a function call has been
\* worked through, the tool having run.
C14_Witness ==
  /\ InResponsesRound
  /\ pc = "item"
  /\ idx = 3
  /\ Len(resp.output) = 2
  /\ resp.output[1].type = "reasoning"
  /\ resp.output[2].type = "function_call"
  /\ Kinds(RoundItemEvents) = <<"thinking", "tool_call", "tool_result">>

ItemEventCount(events) ==
  Count(events, "thinking") + Count(events, "assistant_message")
    + Count(events, "tool_call")

\* C15: once the cancellation token has fired, the structured-output adapter
\* takes up no further output item of the round: a pass of the loop over
\* output that begins with the token fired emits no thinking,
\* assistant_message or tool_call event.
C15_NoItemAfterAbort ==
  [][(api = "responses" /\ pc = "item" /\ Aborted) =>
       ItemEventCount(emitted') = ItemEventCount(emitted)]_vars

\* C16: when the cancellation signal fires while bash or the rg search is
\* running its child, the child is terminated and executeTool fails with
\* "Interrupted", not with another failure or a result string.
C16_CancelledToolIsInterrupted ==
  (pc = "toolres" /\ SpawnsProcess(CallName, CallArgs) /\ intAt = "toolwait") =>
    /\ child \in {"killed", "exited"}
    /\ toolRes = Settled(FALSE, "Interrupted")

\* The glob call in progress finds no file matching its pattern.
GlobNoFiles ==
  /\ CallName = "glob"
  /\ HasParam(CallArgs)
  /\ toolEnv.matches = "none"

\* The rg call in progress has a child that exits with status 1.
RgNoMatches ==
  /\ CallName = "rg"
  /\ HasParam(CallArgs)
  /\ toolEnv.code = 1

ToolResultOut ==
  /\ pc = "pushres"
  /\ emitted # <<>>
  /\ emitted[Len(emitted)].type = "tool_result"

\* C17: glob matching no file returns 'No files found matching the pattern'
\* and an rg search whose child exits with status 1 (not cancelled) returns
\* 'No matches found'; both are normal results, reported by a tool_result
\* event that is not an error.
C17_NoMatchSentinels ==
  /\ (pc \in {"toolres", "pushres"} /\ GlobNoFiles) =>
       toolRes = Settled(TRUE, "No files found matching the pattern")
  /\ (pc = "toolres" /\ RgNoMatches /\ ~Aborted) =>
       toolRes = Settled(TRUE, "No matches found")
  /\ (pc = "pushres" /\ (GlobNoFiles \/ RgNoMatches) /\ toolRes.ok) =>
       /\ ToolResultOut
       /\ emitted[Len(emitted)] = EvToolResult(CallId, toolRes.value, FALSE)

\* C17 witness: an rg search whose child exited with status 1 has been
\* reported with the sentinel and without the error flag.
C17_Witness ==
  /\ ToolResultOut
  /\ RgNoMatches
  /\ child = "exited"
  /\ emitted[Len(emitted)] = EvToolResult(CallId, "No matches found", FALSE)

\* C18: a failing append to the session log does not abort the turn in
\* progress: the engine goes on from where it was, with the same tool result
\* in hand, the same transcript and no turn ended.
C18_AppendFailureHarmless ==
  [][failLeft' # failLeft =>
       /\ pc' = pc
       /\ ctl' = ctl
       /\ toolRes' = toolRes
       /\ turns' = turns
       /\ messages' = messages]_vars

\* C19: the transcript the structured-output adapter submits in a round
\* holds no entry that still carries the type discriminator "message".
C19_MessageTypeStripped ==
  (api = "responses" /\ pc = "request") =>
    \A k \in 1..Len(messages) : messages[k].type # "message"

\* C20: the session file is append-only: every SessionManager write adds
\* one line at the end, and no step, resuming with --continue included,
\* changes or removes a line already in a session file.
C20_SessionFileAppendOnly ==
  [][\A f \in 1..MaxFiles :
       /\ IsPrefix(files[f], files'[f])
       /\ Len(files'[f]) <= Len(files[f]) + 1]_vars

\* C20 witness: a manager that resumed a file holding one message line and
\* no session line (so that it generated a new id) has appended its session
\* line after the earlier content.
C20_Witness ==
  /\ continued
  /\ sessionFile = 1
  /\ sessionId = 2
  /\ files[1] = <<MessageEntry, SessionEntry(2)>>

\* C21: in every session file the first record is the session record and
\* no later record is a session record.
C21_SessionRecordFirstAndOnly ==
  \A f \in 1..MaxFiles :
    files[f] # <<>> =>
      /\ files[f][1].type = "session"
      /\ \A k \in 2..Len(files[f]) : files[f][k].type # "session"

\* A SessionManager is constructed in this step.
ManagerConstructed ==
  <<sessionFile, sessionId, continued, continueSession, nextSession>>'
    # <<sessionFile, sessionId, continued, continueSession, nextSession>>

\* C22: a manager constructed with --continue takes the session file with
\* the greatest modification time; if the directory has no session file it
\* starts a new session: an id that no record carries and a file that does
\* not exist yet.
C22_ContinueSelectsMostRecent ==
  [][(ManagerConstructed /\ continueSession') =>
       IF SessionFiles # {}
         THEN /\ continued'
              /\ sessionFile' \in SessionFiles
              /\ \A g \in SessionFiles : Mtime(g) <= Mtime(sessionFile')
              /\ files' = files
         ELSE /\ ~continued'
              /\ files'[sessionFile'] = <<>>
              /\ sessionId' # sessionId
              /\ \A f \in 1..MaxFiles : \A k \in 1..Len(files[f]) :
                   files[f][k].id # sessionId']_vars

\* C22 witness: of two session files the manager has taken up the one
\* written last.
C22_Witness ==
  /\ continueSession
  /\ continued
  /\ SessionFiles = {1, 2}
  /\ sessionFile = 2
  /\ Mtime(2) > Mtime(1)

\* C23: in JSON interactive mode every message command with content is
\* passed to Agent.ask exactly once, those that arrive during processing
\* after the current one finishes: at any time each message read so far has
\* been asked (its user_message event is out) or is the one waiting.
C23_EveryMessageAsked ==
  mode = "json" =>
    received = Count(emitted, "user_message")
                 + (IF pendingMessage # "" THEN 1 ELSE 0)

\* The texts of the user_message events, in emission order.
AskedTexts ==
  LET asked == SelectSeq(emitted, LAMBDA e : e.type = "user_message")
  IN [k \in 1..Len(asked) |-> asked[k].text]

\* C24: single-shot mode asks the given messages in argument order, one
\* after the other has returned or thrown; a throw gives the renderer one
\* error event and leaves the remaining messages to be asked.
C24_SingleShotInOrder ==
  mode = "single" =>
    /\ AskedTexts = SubSeq(SingleArgs, 1, Len(SingleArgs) - Len(todo))
    /\ Len(AskedTexts) = Len(turns) + (IF pc = "idle" THEN 0 ELSE 1)
    /\ cliErrors = Len(SelectSeq(turns, LAMBDA kind : kind = "threw"))
    /\ (pc = "idle" /\ todo # <<>>) => ENABLED SingleShotNext

\* C24 witness: the first ask threw, and the second message has been asked
\* and answered.
C24_Witness ==
  /\ mode = "single"
  /\ turns = <<"threw", "final">>
  /\ cliErrors = 1
  /\ AskedTexts = SingleArgs
  /\ todo = <<>>


\* C25: each started model runs on a unique port: no two models recorded for
\* the pod have the same port.
C25_UniquePorts ==
  \A a, b \in ModelNames :
    (a # b /\ models[a] # 0 /\ models[b] # 0) => models[a] # models[b]


\* C26: each chat call makes a fresh abort controller and drops it when the
\* call ends: while no turn runs there is no controller and interrupt() changes
\* nothing, a turn begins with a live signal, and a turn ends as interrupted
\* only if interrupt() was called during that same turn.
C26_FreshControllerPerChat ==
  [][mode = "direct" =>
       /\ pc' = "idle" => ctl' = "none"
       /\ (pc = "idle" /\ pc' # "idle") => (ctl' = "live" /\ intAt' = "")
       /\ ~(pc = "idle" /\ pc' = "idle")
       /\ (Len(turns') > Len(turns)
             /\ turns'[Len(turns')] \in {"interrupted", "aborted"}) => intAt # ""]_vars

\* A first turn was interrupted and the next one ran to its final answer.
C26_Witness ==
  /\ mode = "direct"
  /\ Len(turns) = 2
  /\ turns[1] \in {"interrupted", "aborted"}
  /\ turns[2] = "final"
  /\ pc = "idle"
  /\ ctl = "none"


\* C27: every assistant entry the chat-completions adapter appends to the
\* transcript carries either tool calls and no text, or text and no tool
\* calls, never both.
C27_CallsOrTextNotBoth ==
  api = "completions" =>
    \A i \in 1..Len(messages) :
      messages[i].role = "assistant" =>
        ~(Len(messages[i].tool_calls) > 0 /\ messages[i].contentKind = "string")


\* C28: during a turn the transcript only grows by appending: at every step of
\* Agent.chat, in either adapter, the transcript before the step is a prefix of
\* the transcript after it.
C28_TranscriptAppendOnly ==
  [][IsPrefix(messages, messages')]_vars

\* Two turns are over and the transcript holds what they appended, a tool
\* result among it.
C28_Witness ==
  /\ Len(turns) = 2
  /\ pc = "idle"
  /\ Len(messages) >= 5
  /\ \E i \in 1..Len(messages) :
       messages[i].role = "tool" \/ messages[i].type = "function_call_output"


\* C29: in the structured-output adapter a message item with output text ends
\* the turn: after its assistant_message no tool is executed in that turn,
\* whatever items follow it in the response.
C29_MessageItemEndsTurn ==
  api = "responses" =>
    \A i, j \in 1..Len(TurnEvents) :
      (i < j /\ TurnEvents[i].type = "assistant_message")
        => TurnEvents[j].type # "tool_call"


\* The events emitted since the response of the current round arrived.
RoundEvents ==
  SubSeq(emitted, roundStart + 1, Len(emitted))

\* A response has arrived in the current turn.
RoundArrived ==
  roundStart > turnStart

\* C30: when the response of a round carries usage, exactly one token_usage
\* event is emitted for the round and it comes before every other event of the
\* round, whatever the round yields; a response without usage gives none.
C30_TokenUsageFirst ==
  RoundArrived =>
    IF reportsUsage
      THEN /\ RoundEvents # <<>>
           /\ RoundEvents[1].type = "token_usage"
           /\ Count(RoundEvents, "token_usage") = 1
      ELSE Count(RoundEvents, "token_usage") = 0

\* A turn of two rounds with usage is over: the first round ran a tool, the
\* second gave the final answer, and each round emitted its token_usage.
C30_Witness ==
  /\ reportsUsage
  /\ TurnOver
  /\ LastTurn = "final"
  /\ Count(TurnEvents, "token_usage") = 2
  /\ Count(TurnEvents, "tool_call") >= 1
  /\ Count(RoundEvents, "assistant_message") = 1


\* The user entries of the transcript.
UserEntries ==
  {i \in 1..Len(messages) : messages[i].role = "user"}

\* C31: every turn begins by appending the user message to the transcript and
\* emits exactly one assistant_start event, after the user_message event and
\* before any model request and any other event of the turn.
C31_TurnBeginsWithStart ==
  [][mode = "direct" =>
       /\ (pc = "idle" /\ pc' # "idle") =>
            /\ \E text \in UserTexts : messages' = Append(messages, RoleMsg("user", text))
            /\ Len(emitted') = Len(emitted) + 2
            /\ emitted'[Len(emitted) + 1].type = "user_message"
            /\ emitted'[Len(emitted) + 2].type = "assistant_start"
            /\ turnStart' = Len(emitted)
            /\ requestsLeft' = requestsLeft
       /\ (pc # "idle" /\ Len(emitted') > Len(emitted)) =>
            \A i \in (Len(emitted) + 1)..Len(emitted') :
              emitted'[i].type \notin {"user_message", "assistant_start"}
       /\ pc' = "request" => (turnStart' + 2) \notin inflight']_vars

\* Two turns have run, the first with a tool call; each began with its
\* user_message and its assistant_start.
C31_Witness ==
  /\ mode = "direct"
  /\ Len(turns) = 2
  /\ pc = "idle"
  /\ Cardinality(UserEntries) = 2
  /\ Count(emitted, "assistant_start") = 2
  /\ Count(emitted, "tool_call") >= 1
  /\ TurnEvents[2].type = "assistant_start"


\* C32: a failure in one sink does not keep the other from receiving the
\* event: when the renderer's on() fails for an event, the session store still
\* receives that event.
C32_RenderFailureStillStored ==
  [][failLeft' # failLeft =>
       \E i \in inflight :
         /\ i \notin inflight'
         /\ stored' = SessionManagerOn(stored, emitted[i])]_vars


\* The events the chat flavour of setEvents has no case for.
SkippedByChat(event) ==
  event.type \in {"thinking", "error", "interrupted", "token_usage"}

\* The events the structured-output flavour of setEvents has a case for.
ReplayedByResponses(event) ==
  event.type \in {"user_message", "thinking", "tool_call", "tool_result",
                  "assistant_message"}

\* C33: setEvents in the chat flavour derives nothing from thinking, error,
\* interrupted and token_usage events: the transcript rebuilt from a log is
\* the one rebuilt from the log without them.  In the structured-output
\* flavour every thinking event becomes exactly one reasoning entry, at its
\* place in the order of the events that give an entry.
C33_ReplayOfThinking ==
  (mode = "resume" /\ pc = "idle") =>
    IF api = "completions"
      THEN messages = SetEvents(SelectSeq(stored, LAMBDA e : ~SkippedByChat(e)))
      ELSE LET replayed == SelectSeq(stored, ReplayedByResponses)
               offset == IF systemPrompt # "" THEN 1 ELSE 0
           IN /\ Len(messages) = offset + Len(replayed)
              /\ \A i \in 1..Len(replayed) :
                   /\ (replayed[i].type = "thinking")
                        <=> (messages[offset + i].type = "reasoning")
                   /\ replayed[i].type = "thinking" =>
                        messages[offset + i]
                          = TypedMsg("reasoning", "reasoning_text", replayed[i].text)

\* A chat-flavour log with a thinking event between a tool call and its result
\* has been replayed: the call and the result are both in the transcript.
C33_Witness ==
  /\ mode = "resume"
  /\ pc = "idle"
  /\ api = "completions"
  /\ Len(stored) = 3
  /\ stored[1].type = "tool_call"
  /\ stored[2].type = "thinking"
  /\ stored[3].type = "tool_result"
  /\ \E i \in 1..Len(messages) : Len(messages[i].tool_calls) = 1


\* The tool call ids entry i of the transcript invokes.
InvokedBy(i) ==
  {messages[i].tool_calls[c].id : c \in 1..Len(messages[i].tool_calls)}
    \cup (IF messages[i].type = "function_call" THEN {messages[i].id} ELSE {})

\* Entry j of the transcript is the result of tool call id.
ResultOf(j, id) ==
  \/ messages[j].role = "tool" /\ messages[j].tool_call_id = id
  \/ messages[j].type = "function_call_output" /\ messages[j].call_id = id

\* C34: when a turn has ended, for whatever reason, every tool invocation in
\* the transcript has a matching tool-result entry after it.
C34_EveryCallHasResult ==
  TurnOver =>
    \A i \in 1..Len(messages) : \A id \in InvokedBy(i) :
      \E j \in (i + 1)..Len(messages) : ResultOf(j, id)


\* The terminal events among the given events.
TerminalEvents(events) ==
  {i \in 1..Len(events) :
     events[i].type \in {"assistant_message", "error", "interrupted"}}

\* C35: each turn ends with exactly one terminal event (assistant_message,
\* error or interrupted) and no event of the turn is emitted after it.  A
\* turn that threw has its error event from the caller of Agent.chat, after
\* everything the engine emitted.
C35_OneTerminalEvent ==
  TurnOver =>
    IF LastTurn = "threw"
      THEN TerminalEvents(TurnEvents) = {}
      ELSE TerminalEvents(TurnEvents) = {Len(TurnEvents)}


\* The loading animation ran for the whole turn, so the Escape key reached
\* the interrupt callback whenever it was pressed during the turn.
AnimationRanAllTurn ==
  Count(TurnEvents, "assistant_message") = 0 /\ Count(TurnEvents, "error") = 0

\* C36: after every turn ends, by a final assistant message, by an error or
\* by an interruption through the Escape key, the submission lock set at
\* assistant_start is released.
C36_SubmitLockReleased ==
  (TurnOver /\ mode = "direct") =>
    /\ LastTurn \in {"final", "threw"} => ~DisableSubmit
    /\ (LastTurn \in {"interrupted", "aborted"} /\ AnimationRanAllTurn) => ~DisableSubmit


\* The session lines of the directory, as pairs of file and position.
SessionLines ==
  {fk \in (1..MaxFiles) \X (1..UseRecords) :
     /\ fk[2] <= Len(files[fk[1]])
     /\ files[fk[1]][fk[2]].type = "session"}

\* No session line has a field for the key, and none of its text is a key.
NoKeyStored ==
  \A fk \in SessionLines :
    LET saved == files[fk[1]][fk[2]].config IN
    /\ "apiKey" \notin DOMAIN saved
    /\ \A f \in {"model", "baseURL", "systemPrompt"} :
         saved[f] \notin ApiKeys

\* An invocation writes what it would have written with any other key.
SameRecordsForAnyKey ==
  \A continue \in BOOLEAN, apiKey \in ApiKeys, model \in ModelIds,
     prompt \in {"", "sys"} :
    PromptModel(continue, apiKey, model, prompt) =>
      \A other \in ApiKeys :
        files' = SessionWrites(continue, other, model, prompt)

\* A resumed Agent has the invocation's key and the stored other fields.
ResumeTakesCurrentKey ==
  \A apiKey \in ApiKeys, model \in ModelIds, prompt \in {"", "sys"} :
    (PromptModel(TRUE, apiKey, model, prompt) /\ Resumable(TRUE)) =>
      LET saved == StoredConfig(files[FindMostRecentSession]) IN
      /\ config'.apiKey = apiKey
      /\ \A f \in DOMAIN saved : config'[f] = saved[f]

\* C37: the API key never reaches the session file: the records written do
\* not depend on the key of the invocation, no session line carries a key,
\* and a resumed session has the key of the current invocation while every
\* other field of its configuration is the stored one.
C37_KeyNeverStored ==
  /\ []NoKeyStored
  /\ [][SameRecordsForAnyKey /\ ResumeTakesCurrentKey]_vars

\* A session begun with one model is resumed with the other key; the
\* resumed configuration names the stored model, which both session lines
\* of the file record.
C37_Witness ==
  /\ continued
  /\ sessionFile = 1
  /\ config.apiKey = "key2"
  /\ config.model = "qwen"
  /\ config.isGptOss = FALSE
  /\ Len(files[1]) = 4
  /\ \A k \in {1, 3} : files[1][k] = SessionRecord(1, config)

\* --continue is asked for and the most recent file cannot be restored.
ContinueFindsUnresumable ==
  /\ FindMostRecentSession # 0
  /\ ~LoadSession(files[FindMostRecentSession])

\* C38: when a session is to be continued and loadSession returns null for
\* the most recent file, the process writes to a fresh file: the existing
\* file gets no record and is not the manager's file.
C38_UnresumableLeftAlone ==
  [][\A prompt \in {"", "sys"} :
       (ContinueFindsUnresumable /\ StartProcess(TRUE, prompt)) =>
         /\ files'[FindMostRecentSession] = files[FindMostRecentSession]
         /\ sessionFile' # FindMostRecentSession]_vars


====
